---- MODULE Spec2Model ----
(***************************************************************************)
(* Production-capacity scheduling engine of SINCO ("Manufacturing          *)
(* Optimization"): modules/scheduler.py, modules/models.py and the event / *)
(* overtime handlers of main.py that re-invoke compute_eta after an edit.  *)
(*                                                                         *)
(* Numbers.  Python floats are modelled as exact rationals <<n, d>> in     *)
(* lowest terms with d > 0; float rounding is not modelled.  A date is the *)
(* number of days since Monday 2024-01-01, so date.weekday() is d % 7 with *)
(* Monday = 0.  A datetime is the rational number of hours since           *)
(* 2024-01-01 00:00.  A text (str) is a sequence of one-character strings. *)
(***************************************************************************)
EXTENDS Integers, Sequences, FiniteSets, TLC

VARIABLES
    order,              \* [Calls -> Order]: the Order object each invocation of compute_eta is given
    shift_template,     \* cal.shift_template: the active ShiftTemplate, or NoTemplate
    pc,                 \* [Calls -> position of the invocation in compute_eta]
    remaining_hours,    \* locals of compute_eta, one copy per invocation
    lost_map,
    reason_map,
    extra_map,
    extra_reason_map,
    explanation,
    current_day,
    hours_left,
    daily_capacity_map,
    iter,               \* the loop counter `_` of `for _ in range(3650)`
    result,             \* what the invocation returned (NoResult before it returns or when it raises)
    edit,               \* the handler of main.py that produced order[2] from order[1]
    call                \* the frame of a library function called from outside compute_eta

vars == <<order, shift_template, pc, remaining_hours, lost_map, reason_map, extra_map,
          extra_reason_map, explanation, current_day, hours_left, daily_capacity_map,
          iter, result, edit, call>>

ledger == <<remaining_hours, lost_map, reason_map, extra_map, extra_reason_map>>

Calls == {1, 2}

-----------------------------------------------------------------------------
(* Exact rational arithmetic standing for Python float arithmetic.          *)

Abs(x) == IF x < 0 THEN -x ELSE x

RECURSIVE GCD(_, _)
GCD(a, b) == IF b = 0 THEN a ELSE GCD(b, a % b)

Norm(n, d) ==
    LET g == GCD(Abs(n), d)
    IN  IF n = 0 THEN <<0, 1>> ELSE <<(IF n < 0 THEN -(Abs(n) \div g) ELSE n \div g), d \div g>>

R(n) == <<n, 1>>
Zero == R(0)
One == R(1)

RAdd(a, b) == Norm(a[1] * b[2] + b[1] * a[2], a[2] * b[2])
RSub(a, b) == Norm(a[1] * b[2] - b[1] * a[2], a[2] * b[2])
RMul(a, b) == Norm(a[1] * b[1], a[2] * b[2])
\* a / b for b > 0 (every division of the engine is guarded by `> 0`)
RDiv(a, b) == Norm(a[1] * b[2], a[2] * b[1])
RLe(a, b) == a[1] * b[2] <= b[1] * a[2]
RLt(a, b) == a[1] * b[2] < b[1] * a[2]
RMax(a, b) == IF RLt(a, b) THEN b ELSE a
RMin(a, b) == IF RLt(b, a) THEN b ELSE a
IMax(a, b) == IF a < b THEN b ELSE a

\* dict.get(key, default)
Get(m, k, default) == IF k \in DOMAIN m THEN m[k] ELSE default

\* dict[key] = value
Put(m, k, v) == [x \in (DOMAIN m) \cup {k} |-> IF x = k THEN v ELSE m[x]]

EmptyMap == [x \in {} |-> 0]

-----------------------------------------------------------------------------
(* models.py                                                                *)

\* ShiftDayPlan.total_hours
total_hours(plan) == RMul(R(IMax(0, plan.shift_count)), RMax(Zero, plan.hours_per_shift))

\* hours_for_weekday without the `len(self.week_plan) < 7` test
hours_for_weekday_any_length(template, weekday) ==
    IF weekday < 0 THEN Zero
    ELSE IF weekday >= Len(template.week_plan) THEN Zero
    ELSE total_hours(template.week_plan[weekday + 1])

\* ShiftTemplate.hours_for_weekday
hours_for_weekday(template, weekday) ==
    IF weekday < 0 THEN Zero
    ELSE IF Len(template.week_plan) < 7 THEN Zero
    ELSE IF weekday >= Len(template.week_plan) THEN Zero
    ELSE total_hours(template.week_plan[weekday + 1])

NoTemplate == [name |-> "", week_plan |-> <<>>, absent |-> TRUE]

\* date.weekday(): Monday is 0; day 0 is Monday 2024-01-01
weekday(d) == d % 7

\* an absent template taken for a standard 8h day
CapacityForDayDefault8(template, d) ==
    IF template.absent THEN R(8) ELSE hours_for_weekday(template, weekday(d))

\* WorkCalendar.capacity_for_day
capacity_for_day(template, d) ==
    IF template.absent THEN Zero ELSE hours_for_weekday(template, weekday(d))

-----------------------------------------------------------------------------
(* Equipment-id texts: scheduler.py _normalize_equipment_ids,               *)
(* _split_equipment_ids.  The sentinel "-" is one character; the four      *)
(* characters of the other sentinel are written "wu","xu","she","bei".     *)

Space == " "
Comma == ","
SentinelDash == <<"-">>
SentinelNone == <<"wu", "xu", "she", "bei">>

RECURSIVE LStrip(_)
LStrip(s) == IF s # <<>> /\ Head(s) = Space THEN LStrip(Tail(s)) ELSE s

RECURSIVE RStrip(_)
RStrip(s) == IF s # <<>> /\ s[Len(s)] = Space THEN RStrip(SubSeq(s, 1, Len(s) - 1)) ELSE s

\* strip() that leaves the trailing spaces
StripLeadingOnly(s) == LStrip(s)

\* str.strip()
Strip(s) == RStrip(LStrip(s))

\* str.split(","): the pieces between the commas, empty pieces included
RECURSIVE SplitFrom(_, _, _)
SplitFrom(text, i, piece) ==
    IF i > Len(text) THEN <<piece>>
    ELSE IF text[i] = Comma THEN <<piece>> \o SplitFrom(text, i + 1, <<>>)
    ELSE SplitFrom(text, i + 1, Append(piece, text[i]))

SplitComma(text) == SplitFrom(text, 1, <<>>)

\* the loop of _normalize_equipment_ids without the `if text in seen` test
RECURSIVE NormalizeKeepingRepeats(_, _, _, _)
NormalizeKeepingRepeats(items, i, seen, res) ==
    IF i > Len(items) THEN res
    ELSE LET text == Strip(items[i])
         IN  IF text = <<>> \/ text = SentinelDash \/ text = SentinelNone
                 THEN NormalizeKeepingRepeats(items, i + 1, seen, res)
             ELSE NormalizeKeepingRepeats(items, i + 1, seen \cup {text}, Append(res, text))

\* the loop of _normalize_equipment_ids over items[i..]
RECURSIVE NormalizeFrom(_, _, _, _)
NormalizeFrom(items, i, seen, res) ==
    IF i > Len(items) THEN res
    ELSE LET text == Strip(items[i])
         IN  IF text = <<>> \/ text = SentinelDash \/ text = SentinelNone
                 THEN NormalizeFrom(items, i + 1, seen, res)
             ELSE IF text \in seen
                 THEN NormalizeFrom(items, i + 1, seen, res)
             ELSE NormalizeFrom(items, i + 1, seen \cup {text}, Append(res, text))

_normalize_equipment_ids(items) == NormalizeFrom(items, 1, {}, <<>>)

_split_equipment_ids(text) ==
    IF text = <<>> THEN <<>>
    ELSE IF Strip(text) = SentinelDash \/ Strip(text) = SentinelNone THEN <<>>
    ELSE _normalize_equipment_ids(SplitComma(text))

\* ",".join(xs)
RECURSIVE Join(_)
Join(xs) ==
    IF xs = <<>> THEN <<>>
    ELSE IF Len(xs) = 1 THEN xs[1]
    ELSE xs[1] \o <<Comma>> \o Join(Tail(xs))

_format_equipment_ids(ids) == Join(_normalize_equipment_ids(ids))

-----------------------------------------------------------------------------
(* Workload aggregator: scheduler.py lines 43-116                           *)

\* _equipment_available_map_from_list: later roster entries overwrite earlier ones
RECURSIVE EquipmentMapFrom(_, _, _)
EquipmentMapFrom(equipment, i, res) ==
    IF i > Len(equipment) THEN res
    ELSE IF equipment[i].equipment_id = <<>> THEN EquipmentMapFrom(equipment, i + 1, res)
    ELSE EquipmentMapFrom(equipment, i + 1,
             Put(res, equipment[i].equipment_id, IMax(0, equipment[i].available_count)))

_equipment_available_map_from_list(equipment) == EquipmentMapFrom(equipment, 1, EmptyMap)

_equipment_available_map(o) == _equipment_available_map_from_list(o.equipment)

\* sum(max(0, equipment_map.get(eq_id, 0)) for eq_id in equipment_ids)
RECURSIVE AvailableSum(_, _, _)
AvailableSum(equipment_ids, i, equipment_map) ==
    IF i > Len(equipment_ids) THEN 0
    ELSE IMax(0, Get(equipment_map, equipment_ids[i], 0))
         + AvailableSum(equipment_ids, i + 1, equipment_map)

\* planned_hours read as hours per unit and scaled by the quantity
PhaseEffectiveHoursPerUnit(phase, quantity, equipment_map) ==
    RMul(RMax(Zero, phase.planned_hours), R(IMax(quantity, 1)))

_phase_effective_hours(phase, quantity, equipment_map) ==
    LET base == RMax(Zero, phase.planned_hours)
        equipment_ids == _split_equipment_ids(phase.equipment_id)
        available == AvailableSum(equipment_ids, 1, equipment_map)
    IN  IF equipment_ids # <<>> /\ available > 0 THEN RDiv(base, R(available)) ELSE base

\* planned_hours read as hours per unit
PhaseTotalHoursTimesQuantity(phase, quantity) ==
    RMul(RMax(Zero, phase.planned_hours), R(quantity))

_phase_total_hours(phase, quantity) == RMax(Zero, phase.planned_hours)

_phase_completion_ratio(phase, quantity) ==
    LET total == _phase_total_hours(phase, quantity)
        completed == RMin(RMax(Zero, phase.completed_hours), total)
    IN  IF RLe(total, Zero) THEN Zero ELSE RDiv(completed, total)

\* remaining = hours * (1.0 - ratio) of one phase
PhaseRemaining(phase, quantity, equipment_map) ==
    RMul(_phase_effective_hours(phase, quantity, equipment_map),
         RSub(One, _phase_completion_ratio(phase, quantity)))

\* a parallel group gated by its fastest phase: min(group_hours)
RECURSIVE MinOfList(_, _)
MinOfList(xs, i) ==
    IF i = Len(xs) THEN xs[i] ELSE RMin(xs[i], MinOfList(xs, i + 1))

\* max(group_hours) of a non-empty list
RECURSIVE MaxOfList(_, _)
MaxOfList(xs, i) ==
    IF i = Len(xs) THEN xs[i] ELSE RMax(xs[i], MaxOfList(xs, i + 1))

\* for group_hours in parallel_groups.values(): total += max(group_hours)
RECURSIVE AddGroupMaxima(_, _, _)
AddGroupMaxima(parallel_groups, keys, total) ==
    IF keys = {} THEN total
    ELSE LET g == CHOOSE k \in keys : TRUE
         IN  AddGroupMaxima(parallel_groups, keys \ {g},
                            RAdd(total, MaxOfList(parallel_groups[g], 1)))

\* the first loop of _product_remaining_hours leaving out the phases of a parallel group
RECURSIVE RemainingLoopSkippingGroups(_, _, _, _, _)
RemainingLoopSkippingGroups(product, i, equipment_map, total, parallel_groups) ==
    IF i > Len(product.phases) THEN total
    ELSE LET phase == product.phases[i]
             remaining == PhaseRemaining(phase, product.quantity, equipment_map)
         IN  IF phase.parallel_group > 0
                 THEN RemainingLoopSkippingGroups(product, i + 1, equipment_map, total,
                                                  parallel_groups)
                 ELSE RemainingLoopSkippingGroups(product, i + 1, equipment_map,
                                                  RAdd(total, remaining), parallel_groups)

\* the first loop of _product_remaining_hours over product.phases[i..]
RECURSIVE RemainingLoop(_, _, _, _, _)
RemainingLoop(product, i, equipment_map, total, parallel_groups) ==
    IF i > Len(product.phases) THEN AddGroupMaxima(parallel_groups, DOMAIN parallel_groups, total)
    ELSE LET phase == product.phases[i]
             remaining == PhaseRemaining(phase, product.quantity, equipment_map)
         IN  IF phase.parallel_group > 0
                 THEN RemainingLoop(product, i + 1, equipment_map, total,
                          Put(parallel_groups, phase.parallel_group,
                              Append(Get(parallel_groups, phase.parallel_group, <<>>), remaining)))
                 ELSE RemainingLoop(product, i + 1, equipment_map, RAdd(total, remaining),
                                    parallel_groups)

_product_remaining_hours(product, equipment_map) ==
    RemainingLoop(product, 1, equipment_map, Zero, EmptyMap)

\* sum(_product_remaining_hours(p, equipment_map) for p in order.products)
RECURSIVE SumRemaining(_, _, _)
SumRemaining(products, i, equipment_map) ==
    IF i > Len(products) THEN Zero
    ELSE RAdd(_product_remaining_hours(products[i], equipment_map),
              SumRemaining(products, i + 1, equipment_map))

\* the loop of _product_progress leaving out the phases of a parallel group
RECURSIVE ProgressLoopSkippingGroups(_, _, _, _, _)
ProgressLoopSkippingGroups(product, i, equipment_map, total, done) ==
    IF i > Len(product.phases) THEN <<total, done>>
    ELSE LET phase == product.phases[i]
             hours == _phase_effective_hours(phase, product.quantity, equipment_map)
             ratio == _phase_completion_ratio(phase, product.quantity)
         IN  IF phase.parallel_group > 0
                 THEN ProgressLoopSkippingGroups(product, i + 1, equipment_map, total, done)
             ELSE ProgressLoopSkippingGroups(product, i + 1, equipment_map, RAdd(total, hours),
                                             RAdd(done, RMul(hours, ratio)))

\* the loop of _product_progress over product.phases[i..]: <<total, done>>
RECURSIVE ProgressLoop(_, _, _, _, _)
ProgressLoop(product, i, equipment_map, total, done) ==
    IF i > Len(product.phases) THEN <<total, done>>
    ELSE LET phase == product.phases[i]
             hours == _phase_effective_hours(phase, product.quantity, equipment_map)
             ratio == _phase_completion_ratio(phase, product.quantity)
         IN  ProgressLoop(product, i + 1, equipment_map, RAdd(total, hours),
                          RAdd(done, RMul(hours, ratio)))

_product_progress(product, equipment_map) ==
    LET sums == ProgressLoop(product, 1, equipment_map, Zero, Zero)
    IN  IF RLe(sums[1], Zero) THEN Zero ELSE RMin(RDiv(sums[2], sums[1]), One)

_product_quantity_progress(product) ==
    LET qty == IMax(product.quantity, 0)
        produced == IMax(0, product.produced_qty)
    IN  IF qty <= 0 THEN Zero
        ELSE Norm(IF produced > qty THEN qty ELSE produced, qty)

-----------------------------------------------------------------------------
(* Event / adjustment ledger: scheduler.py lines 123-143                    *)

\* the ledger booking every event on the day after its date
RECURSIVE LostMapNextDay(_, _, _)
LostMapNextDay(events, i, m) ==
    IF i > Len(events) THEN m
    ELSE LostMapNextDay(events, i + 1,
             Put(m, events[i].day + 1,
                 RAdd(Get(m, events[i].day + 1, Zero), events[i].hours_lost)))

\* the ledger keeping the last event of a day in place of the sum
RECURSIVE LostMapLastWins(_, _, _)
LostMapLastWins(events, i, m) ==
    IF i > Len(events) THEN m
    ELSE LostMapLastWins(events, i + 1, Put(m, events[i].day, events[i].hours_lost))

\* for ev in order.events: lost_map[ev.day] = lost_map.get(ev.day, 0.0) + ev.hours_lost
RECURSIVE LostMapFrom(_, _, _)
LostMapFrom(events, i, m) ==
    IF i > Len(events) THEN m
    ELSE LostMapFrom(events, i + 1,
             Put(m, events[i].day, RAdd(Get(m, events[i].day, Zero), events[i].hours_lost)))

\* reason_map.setdefault(ev.day, []).append(f"{ev.reason}(-{ev.hours_lost:g}h)");
\* the formatted label is kept as the pair of its two fields
RECURSIVE ReasonMapFrom(_, _, _)
ReasonMapFrom(events, i, m) ==
    IF i > Len(events) THEN m
    ELSE ReasonMapFrom(events, i + 1,
             Put(m, events[i].day,
                 Append(Get(m, events[i].day, <<>>),
                        [reason |-> events[i].reason, minus |-> events[i].hours_lost])))

\* the overtime taken once, however many machines the adjustment names
ExtraTotalOnce(adj) == adj.extra_hours

\* extra_total = adj.extra_hours * max(equipment_count, 1)
extra_total(adj) ==
    LET equipment_count == IF adj.equipment_ids # <<>> THEN Len(adj.equipment_ids) ELSE 1
    IN  RMul(adj.extra_hours, R(IMax(equipment_count, 1)))

RECURSIVE ExtraMapFrom(_, _, _)
ExtraMapFrom(adjustments, i, m) ==
    IF i > Len(adjustments) THEN m
    ELSE ExtraMapFrom(adjustments, i + 1,
             Put(m, adjustments[i].day,
                 RAdd(Get(m, adjustments[i].day, Zero), extra_total(adjustments[i]))))

RECURSIVE ExtraReasonMapFrom(_, _, _)
ExtraReasonMapFrom(adjustments, i, m) ==
    IF i > Len(adjustments) THEN m
    ELSE ExtraReasonMapFrom(adjustments, i + 1,
             Put(m, adjustments[i].day,
                 Append(Get(m, adjustments[i].day, <<>>),
                        [equipment |-> adjustments[i].equipment_ids,
                         reason |-> adjustments[i].reason,
                         plus |-> adjustments[i].extra_hours])))

\* the "Product workload summary:" block of the explanation
RECURSIVE SummaryLines(_, _, _)
SummaryLines(products, i, equipment_map) ==
    IF i > Len(products) THEN <<>>
    ELSE <<[line |-> "product", product_id |-> products[i].product_id,
            quantity |-> products[i].quantity,
            hours |-> _product_remaining_hours(products[i], equipment_map)]>>
         \o SummaryLines(products, i + 1, equipment_map)

Summary(products, equipment_map) ==
    IF products # <<>>
        THEN <<[line |-> "Product workload summary:"]>>
             \o SummaryLines(products, 1, equipment_map) \o <<[line |-> ""]>>
        ELSE <<>>

-----------------------------------------------------------------------------
(* ETA simulator: scheduler.py compute_eta, lines 119-204                   *)

\* a loop of one iteration less
OneDayShort == 3650 - 1

MaxIterations == 3650

\* the loop entered on the day after the start date
DateOfNextDay(dt) == dt[1] \div (24 * dt[2]) + 1

\* order.start_dt.date()
DateOf(dt) == dt[1] \div (24 * dt[2])

\* the capacity with the overtime left out, and the capacity without the floor at 0
NetCapacityNoExtra(base_cap, lost, extra) == RMax(RSub(base_cap, lost), Zero)
NetCapacityNoFloor(base_cap, lost, extra) == RAdd(RSub(base_cap, lost), extra)

\* cap = max(base_cap - lost + extra, 0.0)
NetCapacity(base_cap, lost, extra) == RMax(RAdd(RSub(base_cap, lost), extra), Zero)

\* every visited day entered in the trace
DayIsRecordedAlways(base_cap, lost, extra) == TRUE

\* if base_cap > 0 or extra > 0 or lost > 0
DayIsRecorded(base_cap, lost, extra) ==
    RLt(Zero, base_cap) \/ RLt(Zero, extra) \/ RLt(Zero, lost)

\* the finish anchored at midnight instead of 09:00
FinishTimeFromMidnight(day, left) == RAdd(R(day * 24), left)

\* datetime.combine(current_day, min.time()).replace(hour=9, minute=0) + timedelta(hours=hours_left)
FinishTime(day, left) == RAdd(R(day * 24 + 9), left)

NoResult == [none |-> TRUE]

\* no library function is being called
NoCall == [fn |-> "none"]

\* a library function entered with the arguments `arg`; the frame after its return
Called(fn, arg) == [fn |-> fn, pc |-> "called", arg |-> arg, ret |-> NoResult]
Entered(fn) == call.fn = fn /\ call.pc = "called"
Returned(fn) == call.fn = fn /\ call.pc = "returned"

\* everything compute_eta and the handlers of main.py work on
engine == <<order, shift_template, pc, ledger, explanation, current_day, hours_left,
            daily_capacity_map, iter, result, edit>>

\* if remaining_hours <= 0 (a bug that tests `< 0` would send a finished order into the loop)
AllDoneStrict(rem) == RLt(rem, Zero)
AllDone(rem) == RLe(rem, Zero)

\* Begin with lost_map kept in one dictionary that every invocation fills and reads
BeginSharedLedger(c) ==
    /\ pc[c] = "start"
    /\ LET o == order[c]
           equipment_map == _equipment_available_map(o)
           rem == SumRemaining(o.products, 1, equipment_map)
           summary == Summary(o.products, equipment_map)
       IN  /\ lost_map' = [d \in Calls |-> LostMapFrom(o.events, 1, EmptyMap)]
           /\ reason_map' = [reason_map EXCEPT ![c] = ReasonMapFrom(o.events, 1, EmptyMap)]
           /\ extra_map' = [extra_map EXCEPT ![c] = ExtraMapFrom(o.adjustments, 1, EmptyMap)]
           /\ extra_reason_map' =
                  [extra_reason_map EXCEPT ![c] = ExtraReasonMapFrom(o.adjustments, 1, EmptyMap)]
           /\ remaining_hours' = [remaining_hours EXCEPT ![c] = rem]
           /\ IF AllDone(rem)
                 THEN /\ result' = [result EXCEPT ![c] =
                             [eta_dt |-> o.start_dt,
                              remaining_hours |-> Zero,
                              daily_capacity_map |-> EmptyMap,
                              explanation |-> summary \o
                                  <<[line |-> "All phases completed. ETA equals start time."]>>]]
                      /\ explanation' = [explanation EXCEPT ![c] = summary]
                      /\ pc' = [pc EXCEPT ![c] = "returned"]
                      /\ UNCHANGED <<current_day, hours_left, daily_capacity_map, iter>>
                 ELSE /\ explanation' = [explanation EXCEPT ![c] = summary]
                      /\ current_day' = [current_day EXCEPT ![c] = DateOf(o.start_dt)]
                      /\ hours_left' = [hours_left EXCEPT ![c] = rem]
                      /\ daily_capacity_map' = [daily_capacity_map EXCEPT ![c] = EmptyMap]
                      /\ iter' = [iter EXCEPT ![c] = 0]
                      /\ pc' = [pc EXCEPT ![c] = "loop"]
                      /\ UNCHANGED result
    /\ UNCHANGED <<order, shift_template, edit, call>>

\* lines 120-165: workload, ledger, summary; the early return of a finished order
Begin(c) ==
    /\ pc[c] = "start"
    /\ LET o == order[c]
           equipment_map == _equipment_available_map(o)
           rem == SumRemaining(o.products, 1, equipment_map)
           summary == Summary(o.products, equipment_map)
       IN  /\ lost_map' = [lost_map EXCEPT ![c] = LostMapFrom(o.events, 1, EmptyMap)]
           /\ reason_map' = [reason_map EXCEPT ![c] = ReasonMapFrom(o.events, 1, EmptyMap)]
           /\ extra_map' = [extra_map EXCEPT ![c] = ExtraMapFrom(o.adjustments, 1, EmptyMap)]
           /\ extra_reason_map' =
                  [extra_reason_map EXCEPT ![c] = ExtraReasonMapFrom(o.adjustments, 1, EmptyMap)]
           /\ remaining_hours' = [remaining_hours EXCEPT ![c] = rem]
           /\ IF AllDone(rem)
                 THEN /\ result' = [result EXCEPT ![c] =
                             [eta_dt |-> o.start_dt,
                              remaining_hours |-> Zero,
                              daily_capacity_map |-> EmptyMap,
                              explanation |-> summary \o
                                  <<[line |-> "All phases completed. ETA equals start time."]>>]]
                      /\ explanation' = [explanation EXCEPT ![c] = summary]
                      /\ pc' = [pc EXCEPT ![c] = "returned"]
                      /\ UNCHANGED <<current_day, hours_left, daily_capacity_map, iter>>
                 ELSE /\ explanation' = [explanation EXCEPT ![c] = summary]
                      /\ current_day' = [current_day EXCEPT ![c] = DateOf(o.start_dt)]
                      /\ hours_left' = [hours_left EXCEPT ![c] = rem]
                      /\ daily_capacity_map' = [daily_capacity_map EXCEPT ![c] = EmptyMap]
                      /\ iter' = [iter EXCEPT ![c] = 0]
                      /\ pc' = [pc EXCEPT ![c] = "loop"]
                      /\ UNCHANGED result
    /\ UNCHANGED <<order, shift_template, edit, call>>

\* an iteration that reports the hours left on the finishing day as remaining_hours
DayStepReportsLeftover(c) ==
    /\ pc[c] = "loop"
    /\ iter[c] < MaxIterations
    /\ LET day == current_day[c]
           base_cap == capacity_for_day(shift_template, day)
           lost == Get(lost_map[c], day, Zero)
           extra == Get(extra_map[c], day, Zero)
           cap == NetCapacity(base_cap, lost, extra)
           recorded == DayIsRecorded(base_cap, lost, extra)
           map1 == IF recorded THEN Put(daily_capacity_map[c], day, cap)
                   ELSE daily_capacity_map[c]
           expl1 == IF recorded /\ (RLt(Zero, lost) \/ RLt(Zero, extra))
                        THEN Append(explanation[c],
                                 [line |-> "day", day |-> day, capacity |-> base_cap,
                                  minus |-> lost, plus |-> extra, net |-> cap,
                                  reasons |-> Get(reason_map[c], day, <<>>)
                                              \o Get(extra_reason_map[c], day, <<>>)])
                        ELSE explanation[c]
       IN  /\ daily_capacity_map' = [daily_capacity_map EXCEPT ![c] = map1]
           /\ explanation' = [explanation EXCEPT ![c] = expl1]
           /\ IF recorded /\ RLt(Zero, cap) /\ RLe(hours_left[c], cap)
                 THEN /\ result' = [result EXCEPT ![c] =
                             [eta_dt |-> FinishTime(day, hours_left[c]),
                              remaining_hours |-> hours_left[c],
                              daily_capacity_map |-> map1,
                              explanation |-> IF expl1 # <<>> THEN expl1
                                              ELSE <<[line |-> "No blocking events."]>>]]
                      /\ pc' = [pc EXCEPT ![c] = "returned"]
                      /\ UNCHANGED <<hours_left, current_day, iter>>
                 ELSE /\ hours_left' = [hours_left EXCEPT ![c] =
                             IF recorded /\ RLt(Zero, cap) THEN RSub(@, cap) ELSE @]
                      /\ current_day' = [current_day EXCEPT ![c] = @ + 1]
                      /\ iter' = [iter EXCEPT ![c] = @ + 1]
                      /\ UNCHANGED <<result, pc>>
    /\ UNCHANGED <<order, shift_template, edit, call, ledger>>

\* one iteration of `for _ in range(3650)`, lines 168-202
DayStep(c) ==
    /\ pc[c] = "loop"
    /\ iter[c] < MaxIterations
    /\ LET day == current_day[c]
           base_cap == capacity_for_day(shift_template, day)
           lost == Get(lost_map[c], day, Zero)
           extra == Get(extra_map[c], day, Zero)
           cap == NetCapacity(base_cap, lost, extra)
           recorded == DayIsRecorded(base_cap, lost, extra)
           map1 == IF recorded THEN Put(daily_capacity_map[c], day, cap)
                   ELSE daily_capacity_map[c]
           expl1 == IF recorded /\ (RLt(Zero, lost) \/ RLt(Zero, extra))
                        THEN Append(explanation[c],
                                 [line |-> "day", day |-> day, capacity |-> base_cap,
                                  minus |-> lost, plus |-> extra, net |-> cap,
                                  reasons |-> Get(reason_map[c], day, <<>>)
                                              \o Get(extra_reason_map[c], day, <<>>)])
                        ELSE explanation[c]
       IN  /\ daily_capacity_map' = [daily_capacity_map EXCEPT ![c] = map1]
           /\ explanation' = [explanation EXCEPT ![c] = expl1]
           /\ IF recorded /\ RLt(Zero, cap) /\ RLe(hours_left[c], cap)
                 THEN /\ result' = [result EXCEPT ![c] =
                             [eta_dt |-> FinishTime(day, hours_left[c]),
                              remaining_hours |-> remaining_hours[c],
                              daily_capacity_map |-> map1,
                              explanation |-> IF expl1 # <<>> THEN expl1
                                              ELSE <<[line |-> "No blocking events."]>>]]
                      /\ pc' = [pc EXCEPT ![c] = "returned"]
                      /\ UNCHANGED <<hours_left, current_day, iter>>
                 ELSE /\ hours_left' = [hours_left EXCEPT ![c] =
                             IF recorded /\ RLt(Zero, cap) THEN RSub(@, cap) ELSE @]
                      /\ current_day' = [current_day EXCEPT ![c] = @ + 1]
                      /\ iter' = [iter EXCEPT ![c] = @ + 1]
                      /\ UNCHANGED <<result, pc>>
    /\ UNCHANGED <<order, shift_template, edit, call, ledger>>

\* a failure path that drains order.events before raising
RaiseDrainingEvents(c) ==
    /\ pc[c] = "loop"
    /\ iter[c] = MaxIterations
    /\ pc' = [pc EXCEPT ![c] = "raised"]
    /\ order' = [order EXCEPT ![c].events = <<>>]
    /\ UNCHANGED <<shift_template, edit, call, ledger, explanation, current_day, hours_left,
                   daily_capacity_map, iter, result>>

\* line 204: the loop ran out; raise RuntimeError("ETA computation exceeded safe bounds.")
Raise(c) ==
    /\ pc[c] = "loop"
    /\ iter[c] = MaxIterations
    /\ pc' = [pc EXCEPT ![c] = "raised"]
    /\ UNCHANGED <<order, shift_template, edit, call, ledger, explanation, current_day,
                   hours_left, daily_capacity_map, iter, result>>

-----------------------------------------------------------------------------
(* main.py: the handlers that edit the order and recompute the ETA.  The    *)
(* order before the edit and its result stay in call 1; call 2 is the      *)
(* invocation refresh_eta makes on the edited order.                       *)

CharCode(ch) ==
    CASE ch = " " -> 32 [] ch = "," -> 44 [] ch = "-" -> 45
      [] ch = "A" -> 65 [] ch = "B" -> 66 [] ch = "C" -> 67 [] OTHER -> 26080

\* str < str
RECURSIVE LexLt(_, _)
LexLt(a, b) ==
    IF b = <<>> THEN FALSE
    ELSE IF a = <<>> THEN TRUE
    ELSE IF Head(a) = Head(b) THEN LexLt(Tail(a), Tail(b))
    ELSE CharCode(Head(a)) < CharCode(Head(b))

\* sorted(set(...))
RECURSIVE SortedSet(_)
SortedSet(S) ==
    IF S = {} THEN <<>>
    ELSE LET m == CHOOSE x \in S : \A y \in S \ {x} : LexLt(x, y)
         IN  <<m>> \o SortedSet(S \ {m})

Range(f) == {f[i] : i \in DOMAIN f}

\* update_event (main.py 4250-4273) with the form as on_event_select (4288-4298) fills it
\* and the hours spin box set to `hours`, followed by refresh_eta
update_event(row, hours) ==
    /\ pc[1] \in {"returned", "raised"}
    /\ pc[2] = "idle"
    /\ row \in 1..Len(order[1].events)
    /\ order' = [order EXCEPT ![2] =
            [order[1] EXCEPT !.events[row].hours_lost = hours]]
    /\ edit' = [handler |-> "update_event", row |-> row]
    /\ pc' = [pc EXCEPT ![2] = "start"]
    /\ UNCHANGED <<shift_template, call, ledger, explanation, current_day, hours_left,
                   daily_capacity_map, iter, result>>

\* update_capacity_adjustment (main.py 4364-4392) with the form as on_adjustment_select
\* (4410-4420) fills it and the hours spin box set to `hours`, followed by refresh_eta
update_capacity_adjustment(row, hours) ==
    /\ pc[1] \in {"returned", "raised"}
    /\ pc[2] = "idle"
    /\ row \in 1..Len(order[1].adjustments)
    /\ RLt(Zero, hours)
    /\ order[1].adjustments[row].equipment_ids # <<>>
    /\ order' = [order EXCEPT ![2] =
            [order[1] EXCEPT !.adjustments[row].extra_hours = hours,
                             !.adjustments[row].equipment_ids = SortedSet(Range(@))]]
    /\ edit' = [handler |-> "update_capacity_adjustment", row |-> row]
    /\ pc' = [pc EXCEPT ![2] = "start"]
    /\ UNCHANGED <<shift_template, call, ledger, explanation, current_day, hours_left,
                   daily_capacity_map, iter, result>>

\* on_product_cell_changed (main.py 3577-3670), column 2 (quantity) and column 3 (produced
\* quantity), with the cell text parsed by int() to `value`.  Column 2 ends in refresh_eta,
\* which calls compute_eta unless no shift template is set; column 3 does not recompute.
on_product_cell_changed(row, col, value) ==
    /\ pc[1] \in {"returned", "raised"}
    /\ pc[2] = "idle"
    /\ edit.handler = "none"
    /\ row \in 1..Len(order[1].products)
    /\ LET product == order[1].products[row]
           qty == IF value < 1 THEN 1 ELSE value
           produced == IF value < 0 THEN 0
                       ELSE IF value > product.quantity THEN product.quantity ELSE value
       IN  \/ /\ col = 2
              /\ qty # product.quantity
              /\ order' = [order EXCEPT ![2] =
                      [order[1] EXCEPT !.products[row].quantity = qty,
                                       !.products[row].produced_qty =
                                           IF @ > qty THEN qty ELSE @]]
              /\ pc' = [pc EXCEPT ![2] = IF shift_template.absent THEN "edited" ELSE "start"]
           \/ /\ col = 3
              /\ produced # product.produced_qty
              /\ order' = [order EXCEPT ![2] =
                      [order[1] EXCEPT !.products[row].produced_qty = produced]]
              /\ pc' = [pc EXCEPT ![2] = "edited"]
    /\ edit' = [handler |-> "on_product_cell_changed", row |-> row]
    /\ UNCHANGED <<shift_template, call, ledger, explanation, current_day, hours_left,
                   daily_capacity_map, iter, result>>

\* refresh_eta (main.py 5822-5848) on the edited order: compute_eta is called when a shift
\* template is set
refresh_eta ==
    /\ pc[2] = "edited"
    /\ ~shift_template.absent
    /\ pc' = [pc EXCEPT ![2] = "start"]
    /\ UNCHANGED <<order, shift_template, edit, call, ledger, explanation, current_day,
                   hours_left, daily_capacity_map, iter, result>>

-----------------------------------------------------------------------------
(* Inputs                                                                   *)

MaxEvents == 2
MaxAdjustments == 1

SeqsUpTo(S, n) == UNION {[1..k -> S] : k \in 0..n}

Plan(count, hours) == [shift_count |-> count, hours_per_shift |-> R(hours)]
Week(workday, weekend) ==
    <<workday, workday, workday, workday, workday, weekend, weekend>>
Template(name, week_plan) == [name |-> name, week_plan |-> week_plan, absent |-> FALSE]

\* 8h Monday-Friday, nothing at the weekend
Template8 == Template("day", Week(Plan(1, 8), Plan(0, 8)))
\* two shifts of 17h Monday-Friday: 34 machine-hours a day
Template34 == Template("double", Week(Plan(2, 17), Plan(1, 0)))
\* a week plan with fewer than 7 entries
TemplateShort == Template("short", <<Plan(1, 8), Plan(1, 8), Plan(1, 8), Plan(1, 8), Plan(1, 8)>>)
\* 0 base capacity on every weekday
TemplateZero == Template("closed", Week(Plan(0, 8), Plan(-1, 8)))

WorkingTemplates == {Template8, Template34}
IdleTemplates == {NoTemplate, TemplateShort, TemplateZero}

Phase(planned, completed, group, equipment_id) ==
    [name |-> "op", planned_hours |-> R(planned), completed_hours |-> R(completed),
     parallel_group |-> group, equipment_id |-> equipment_id]
Product(id, quantity, produced, phases) ==
    [product_id |-> id, quantity |-> quantity, produced_qty |-> produced, phases |-> phases]
Equipment(id, total, available) ==
    [equipment_id |-> id, total_count |-> total, available_count |-> available]
Event(day, hours) == [day |-> day, hours_lost |-> R(hours), reason |-> "breakdown"]
Adjustment(day, hours, ids) ==
    [day |-> day, extra_hours |-> R(hours), reason |-> "overtime", equipment_ids |-> ids]

IdA == <<"A">>
IdB == <<"B">>
IdC == <<"C">>
Roster == <<Equipment(IdA, 1, 1), Equipment(IdB, 2, 1), Equipment(IdC, 1, 1)>>

\* orders that have nothing left to do
FinishedWorkloads ==
    { <<>>,
      <<Product("P1", 1, 0, <<>>)>>,
      <<Product("P1", 10, 3, <<Phase(10, 10, 0, <<"A">>), Phase(6, 6, 1, <<>>),
                               Phase(4, 4, 1, <<>>), Phase(0, 0, 0, <<>>)>>)>> }

\* 20h sequential; 30h = max(60/2, 5) in one parallel group; 10/3 + 1 hours over two products
OpenWorkloads ==
    { <<Product("P1", 1, 0, <<Phase(20, 0, 0, <<>>)>>)>>,
      <<Product("P1", 2, 0, <<Phase(60, 0, 1, <<"A", ",", "B">>), Phase(10, 5, 1, <<>>)>>)>>,
      <<Product("P1", 1, 0, <<Phase(10, 0, 0, <<"A", ",", "B", ",", "C">>)>>),
        Product("P2", 1, 1, <<Phase(5, 4, 0, <<>>)>>)>> }

\* Monday 2024-01-01 08:00 and Saturday 2024-01-06 15:30
Starts == {R(8), <<271, 2>>}

LostHours == {4, 8}
ExtraHours == {1, 2}
\* Monday: 4h lost; Tuesday: the whole 8h day lost
Events == {Event(0, 4), Event(1, 8)}
\* overtime on Monday for two named machines, on Tuesday for none, on Sunday for two
Adjustments == {Adjustment(0, 1, <<IdA, IdB>>), Adjustment(1, 2, <<>>), Adjustment(6, 2, <<IdB, IdA>>)}

Order(start, products, events, adjustments) ==
    [order_id |-> "O-1", start_dt |-> start, products |-> products, equipment |-> Roster,
     events |-> events, adjustments |-> adjustments]

Idle == [c \in Calls |-> Zero]

\* the state before anything has run: the invocations hold `orders` and stand at
\* `positions`, the library frame is `frame`
InitState(orders, template, positions, frame) ==
    /\ order = orders
    /\ shift_template = template
    /\ pc = positions
    /\ remaining_hours = Idle
    /\ lost_map = [c \in Calls |-> EmptyMap]
    /\ reason_map = [c \in Calls |-> EmptyMap]
    /\ extra_map = [c \in Calls |-> EmptyMap]
    /\ extra_reason_map = [c \in Calls |-> EmptyMap]
    /\ explanation = [c \in Calls |-> <<>>]
    /\ current_day = [c \in Calls |-> 0]
    /\ hours_left = Idle
    /\ daily_capacity_map = [c \in Calls |-> EmptyMap]
    /\ iter = [c \in Calls |-> 0]
    /\ result = [c \in Calls |-> NoResult]
    /\ edit = [handler |-> "none", row |-> 0]
    /\ call = frame

\* compute_eta is about to be entered with the order o
InitCalls(o, template) ==
    InitState([c \in Calls |-> o], template,
              [c \in Calls |-> IF c = 1 THEN "start" ELSE "idle"], NoCall)

\* a library function is about to be entered; compute_eta is not running
InitLibrary(frame) ==
    InitState([c \in Calls |-> Order(Zero, <<>>, <<>>, <<>>)], NoTemplate,
              [c \in Calls |-> "idle"], frame)

\* two callers are about to enter compute_eta, one with o1 and one with o2
InitPair(o1, o2, template) ==
    InitState([c \in Calls |-> IF c = 1 THEN o1 ELSE o2], template,
              [c \in Calls |-> "start"], NoCall)

\* an order under a template that has working days
InitWorking ==
    \E template \in WorkingTemplates, start \in Starts,
       products \in FinishedWorkloads \cup OpenWorkloads,
       events \in SeqsUpTo(Events, MaxEvents),
       adjustments \in SeqsUpTo(Adjustments, MaxAdjustments) :
        InitCalls(Order(start, products, events, adjustments), template)

\* an order under no template, or one that yields no base capacity
InitIdle ==
    \E template \in IdleTemplates,
       work \in { <<<<Product("P1", 3, 3, <<Phase(10, 10, 0, <<"A">>), Phase(6, 6, 2, <<>>)>>)>>,
                    <<Event(1, 8)>>, <<Adjustment(1, 2, <<IdA, IdB>>)>>>>,
                  <<<<Product("P1", 1, 0, <<Phase(20, 0, 0, <<>>)>>)>>,
                    <<Event(1, 8)>>, <<>>>>,
                  <<<<Product("P1", 1, 0, <<Phase(5, 1, 0, <<>>)>>)>>,
                    <<>>, <<Adjustment(1, 2, <<IdA, IdB>>)>>>> } :
        InitCalls(Order(R(8), work[1], work[2], work[3]), template)

Init == InitWorking \/ InitIdle

Next ==
    \/ \E c \in Calls : Begin(c)
    \/ \E c \in Calls : DayStep(c)
    \/ \E c \in Calls : Raise(c)
    \/ \E row \in 1..MaxEvents, h \in LostHours : update_event(row, R(h))
    \/ \E row \in 1..MaxAdjustments, h \in ExtraHours : update_capacity_adjustment(row, R(h))

Spec == Init /\ [][Next]_vars

-----------------------------------------------------------------------------
(* Inputs for the workload aggregator: products over every arrangement of   *)
(* phases in parallel groups, and phases over every equipment text.         *)

MaxPhases == 3
MaxTextLen == 4

\* remaining 5, 8 and 6 * (1 - 1/4) = 9/2 hours, sequential or in group 1 or 2
GroupPhases ==
    {Phase(5, 0, g, <<>>) : g \in 0..2} \cup {Phase(8, 0, g, <<>>) : g \in 0..2}
        \cup {Phase(12, 3, g, <<"A", ",", "B">>) : g \in 0..2}
PairPhases == {Phase(h, 0, g, <<>>) : h \in {5, 8}, g \in 0..1}

InitGroups ==
    \/ \E phases \in SeqsUpTo(GroupPhases, MaxPhases) :
           InitCalls(Order(R(8), <<Product("P1", 1, 0, phases)>>, <<>>, <<>>), Template34)
    \/ \E phases1 \in SeqsUpTo(PairPhases, 2), phases2 \in SeqsUpTo(PairPhases, 2) :
           InitCalls(Order(R(8), <<Product("P1", 1, 0, phases1), Product("P2", 4, 1, phases2)>>,
                           <<>>, <<>>), Template34)

TextChars == {"A", "B", "Z", ",", " ", "-"}
Texts == SeqsUpTo(TextChars, MaxTextLen)
           \cup {SentinelNone, <<"A", ",">> \o SentinelNone, <<" ">> \o SentinelNone}

\* the roster of the spec's example, and one with a machine count below 0, an entry
\* without id and a two-letter id
Rosters ==
    { <<Equipment(IdA, 1, 1), Equipment(IdB, 1, 0)>>,
      <<Equipment(IdA, 2, 2), Equipment(IdB, 1, -1), Equipment(<<>>, 5, 5),
        Equipment(<<"A", "B">>, 3, 3)>> }

InitPooling ==
    \E text \in Texts, roster \in Rosters, planned \in {10, -6} :
        InitCalls([Order(R(8), <<Product("P1", 1, 0, <<Phase(planned, 0, 0, text)>>)>>,
                         <<>>, <<>>) EXCEPT !.equipment = roster],
                  Template34)

InitAgg == InitGroups \/ InitPooling

NextAgg ==
    \/ \E c \in Calls : Begin(c)
    \/ \E c \in Calls : DayStep(c)

SpecAgg == InitAgg /\ [][NextAgg]_vars

-----------------------------------------------------------------------------
(* Properties                                                               *)

Started(c) == pc[c] \in {"loop", "returned", "raised"}

AllPhasesComplete(o) ==
    \A i \in DOMAIN o.products : \A j \in DOMAIN o.products[i].phases :
        o.products[i].phases[j].completed_hours = o.products[i].phases[j].planned_hours

\* C1: an order whose phases all have completed_hours = planned_hours (or that has no
\* products or phases) gets finish = start, remaining_hours = 0 and an empty capacity
\* map; the invocation never enters the day loop and never raises, whatever the
\* template, the events and the adjustments are.
C1_FinishedOrderReturnsStart ==
    \A c \in Calls :
        (Started(c) /\ AllPhasesComplete(order[c])) =>
            /\ pc[c] = "returned"
            /\ result[c].eta_dt = order[c].start_dt
            /\ result[c].remaining_hours = Zero
            /\ result[c].daily_capacity_map = EmptyMap
            /\ iter[c] = 0
            /\ daily_capacity_map[c] = EmptyMap

\* a finished order with real phases, events and overtime, under an absent template
C1_Witness ==
    /\ pc[1] = "returned"
    /\ AllPhasesComplete(order[1])
    /\ \E i \in DOMAIN order[1].products : \E j \in DOMAIN order[1].products[i].phases :
           RLt(Zero, order[1].products[i].phases[j].planned_hours)
    /\ order[1].events # <<>>
    /\ order[1].adjustments # <<>>
    /\ shift_template.absent

-----------------------------------------------------------------------------
(* What the spec says a day is worth, written from the order and not from   *)
(* the ledger the code builds.                                              *)

RECURSIVE RSum(_)
RSum(xs) == IF xs = <<>> THEN Zero ELSE RAdd(Head(xs), RSum(Tail(xs)))

\* the hours lost on day x: the sum over the events dated x
LostOn(o, x) ==
    LET OnDay(e) == e.day = x
        evs == SelectSeq(o.events, OnDay)
    IN  RSum([i \in DOMAIN evs |-> evs[i].hours_lost])

\* the overtime of day x: extra_hours times the number of machines named (1 when none)
ExtraOn(o, x) ==
    LET OnDay(a) == a.day = x
        adjs == SelectSeq(o.adjustments, OnDay)
    IN  RSum([i \in DOMAIN adjs |->
                 RMul(adjs[i].extra_hours,
                      R(IF adjs[i].equipment_ids = <<>> THEN 1 ELSE Len(adjs[i].equipment_ids)))])

BaseOn(t, x) == capacity_for_day(t, x)

\* max(base - lost + extra, 0) of day x
NetOn(o, t, x) ==
    LET raw == RAdd(RSub(BaseOn(t, x), LostOn(o, x)), ExtraOn(o, x))
    IN  IF RLt(raw, Zero) THEN Zero ELSE raw

\* the net capacity of the days a..b
RECURSIVE CumNet(_, _, _, _)
CumNet(o, t, a, b) == IF b < a THEN Zero ELSE RAdd(CumNet(o, t, a, b - 1), NetOn(o, t, b))

\* the base capacity of the days a..b
RECURSIVE CumBase(_, _, _)
CumBase(t, a, b) == IF b < a THEN Zero ELSE RAdd(CumBase(t, a, b - 1), BaseOn(t, b))

StartDay(c) == DateOf(order[c].start_dt)

\* the invocation returned from inside the day loop; current_day is then the finishing day
Finished(c) == pc[c] = "returned" /\ RLt(Zero, result[c].remaining_hours)

\* C2: when a finish instant is returned for remaining_hours > 0, the net capacity of the
\* days from the start date through the finishing day is >= remaining_hours and the net
\* capacity of the days before the finishing day is < remaining_hours.
C2_NoPartialResult ==
    \A c \in Calls :
        Finished(c) =>
            /\ result[c].remaining_hours = remaining_hours[c]
            /\ RLe(remaining_hours[c],
                   CumNet(order[c], shift_template, StartDay(c), current_day[c]))
            /\ RLt(CumNet(order[c], shift_template, StartDay(c), current_day[c] - 1),
                   remaining_hours[c])

\* a finish after the start date, with events and overtime in the order
C2_Witness ==
    /\ Finished(1)
    /\ current_day[1] > StartDay(1)
    /\ order[1].events # <<>>
    /\ order[1].adjustments # <<>>
    /\ \E x \in StartDay(1)..current_day[1] : RLt(Zero, ExtraOn(order[1], x))

\* the template is absent, has fewer than 7 day plans, or has no hours on any weekday
YieldsNoBase(t) ==
    \/ t.absent
    \/ Len(t.week_plan) < 7
    \/ \A i \in 1..7 : t.week_plan[i].shift_count <= 0
                        \/ RLe(t.week_plan[i].hours_per_shift, Zero)

\* C3: with remaining_hours > 0, a template that yields no base capacity and no
\* adjustments, compute_eta never returns a finish instant: it consumes nothing, and when
\* it ends it has raised after all 3650 iterations, whatever events are present.
C3_ZeroCalendarFails ==
    \A c \in Calls :
        (/\ Started(c)
         /\ YieldsNoBase(shift_template)
         /\ order[c].adjustments = <<>>
         /\ RLt(Zero, remaining_hours[c])) =>
            /\ pc[c] \in {"loop", "raised"}
            /\ result[c] = NoResult
            /\ hours_left[c] = remaining_hours[c]
            /\ pc[c] = "raised" => iter[c] = MaxIterations

\* the error raised under a week plan that is too short, with an event in the order
C3_Witness ==
    /\ pc[1] = "raised"
    /\ ~shift_template.absent
    /\ Len(shift_template.week_plan) < 7
    /\ order[1].adjustments = <<>>
    /\ order[1].events # <<>>
    /\ RLt(Zero, remaining_hours[1])

\* C4 as claimed: raising hours_lost of one event that lies on a visited day with positive
\* base capacity never makes the finish instant earlier.
C4_LossNeverEarlier ==
    (/\ pc[1] = "returned" /\ pc[2] = "returned"
     /\ edit.handler = "update_event") =>
        LET e1 == order[1].events[edit.row]
            e2 == order[2].events[edit.row]
        IN  (/\ RLt(e1.hours_lost, e2.hours_lost)
             /\ order[2] = [order[1] EXCEPT !.events[edit.row].hours_lost = e2.hours_lost]
             /\ e1.day \in StartDay(1)..current_day[1]
             /\ Finished(1)
             /\ RLt(Zero, BaseOn(shift_template, e1.day))) =>
                RLe(result[1].eta_dt, result[2].eta_dt)

\* C5 as claimed: raising extra_hours of one adjustment never makes the finish instant later.
C5_OvertimeNeverLater ==
    (/\ pc[1] = "returned" /\ pc[2] = "returned"
     /\ edit.handler = "update_capacity_adjustment") =>
        LET a1 == order[1].adjustments[edit.row]
            a2 == order[2].adjustments[edit.row]
        IN  (/\ RLt(a1.extra_hours, a2.extra_hours)
             /\ order[2] = [order[1] EXCEPT !.adjustments[edit.row].extra_hours = a2.extra_hours]) =>
                RLe(result[2].eta_dt, result[1].eta_dt)

\* C6: no step of compute_eta, on the way to a result or to the error, changes the Order it
\* was given or the shift template.
C6_Purity ==
    [][/\ \A c \in Calls : pc[c] # "idle" => order'[c] = order[c]
       /\ shift_template' = shift_template]_vars

\* one invocation returned a result and the other raised
C6_Witness ==
    /\ pc[1] = "returned" /\ RLt(Zero, remaining_hours[1])
    /\ pc[2] = "raised"

ScenarioA == Order(R(8), <<Product("P1", 1, 0, <<Phase(20, 0, 0, <<>>)>>)>>, <<>>, <<>>)
ScenarioB == Order(R(8), <<Product("P1", 1, 0, <<Phase(20, 0, 0, <<>>)>>)>>, <<Event(1, 8)>>, <<>>)

\* 2024-01-03 13:00 and 2024-01-04 13:00
Jan3At13 == R(2 * 24 + 13)
Jan4At13 == R(3 * 24 + 13)

\* C7: without events and adjustments the workload is consumed day by day from the start
\* date by the base capacity alone (days of 0 base consume nothing) and the finish is 09:00
\* of the finishing day plus the hours left for that day; Scenario A finishes 2024-01-03
\* 13:00 with remaining_hours = 20.
C7_DayStepping ==
    \A c \in Calls :
        /\ (Finished(c) /\ order[c].events = <<>> /\ order[c].adjustments = <<>>) =>
               LET before == CumBase(shift_template, StartDay(c), current_day[c] - 1)
                   left == RSub(remaining_hours[c], before)
               IN  /\ RLt(Zero, left)
                   /\ RLe(left, BaseOn(shift_template, current_day[c]))
                   /\ result[c].eta_dt = RAdd(R(current_day[c] * 24 + 9), left)
        /\ (Started(c) /\ order[c] = ScenarioA /\ shift_template = Template8) =>
               /\ pc[c] # "raised"
               /\ pc[c] = "returned" =>
                      /\ result[c].eta_dt = Jan3At13
                      /\ result[c].remaining_hours = R(20)

\* Scenario A has returned
C7_Witness ==
    /\ pc[1] = "returned"
    /\ order[1] = ScenarioA
    /\ shift_template = Template8
    /\ current_day[1] = 2

\* the day was written to the capacity trace although nothing of it was left
Cancelled(o, t, x) ==
    /\ RLe(RAdd(RSub(BaseOn(t, x), LostOn(o, x)), ExtraOn(o, x)), Zero)
    /\ RLt(Zero, BaseOn(t, x)) \/ RLt(Zero, LostOn(o, x)) \/ RLt(Zero, ExtraOn(o, x))

\* C8: a visited day whose capacity the events remove entirely is in the trace with value 0,
\* consumes nothing and takes nothing from the days after it; Scenario B finishes
\* 2024-01-04 13:00 with 2024-01-02 in the trace at 0.
C8_CancelledDay ==
    \A c \in Calls :
        /\ Finished(c) =>
               /\ \A x \in StartDay(c)..current_day[c] :
                      Cancelled(order[c], shift_template, x) =>
                          /\ x \in DOMAIN result[c].daily_capacity_map
                          /\ result[c].daily_capacity_map[x] = Zero
               /\ result[c].eta_dt =
                      RAdd(R(current_day[c] * 24 + 9),
                           RSub(remaining_hours[c],
                                CumNet(order[c], shift_template, StartDay(c), current_day[c] - 1)))
        /\ (Started(c) /\ order[c] = ScenarioB /\ shift_template = Template8) =>
               /\ pc[c] # "raised"
               /\ pc[c] = "returned" =>
                      /\ result[c].eta_dt = Jan4At13
                      /\ 1 \in DOMAIN result[c].daily_capacity_map
                      /\ result[c].daily_capacity_map[1] = Zero

\* Scenario B has returned
C8_Witness ==
    /\ pc[1] = "returned"
    /\ order[1] = ScenarioB
    /\ shift_template = Template8
    /\ Cancelled(order[1], shift_template, 1)

-----------------------------------------------------------------------------
(* What the spec says a phase and a product are worth, written from the     *)
(* phase's text and the roster and not from the code's lists and maps.      *)

MinOf(S) == CHOOSE x \in S : \A y \in S : x <= y
MaxOf(S) == CHOOSE x \in S : \A y \in S : y <= x

\* s without the spaces before its first and after its last non-space character
Trimmed(s) ==
    LET keep == {i \in 1..Len(s) : s[i] # Space}
    IN  IF keep = {} THEN <<>> ELSE SubSeq(s, MinOf(keep), MaxOf(keep))

\* the comma-free stretches of the text
Pieces(text) ==
    LET cuts == {0, Len(text) + 1} \cup {i \in 1..Len(text) : text[i] = Comma}
    IN  {SubSeq(text, a + 1, b - 1) :
            <<a, b>> \in {p \in cuts \X cuts :
                              p[1] < p[2] /\ \A k \in cuts : ~(p[1] < k /\ k < p[2])}}

\* the distinct machines a phase names
NamedIds(text) == {Trimmed(p) : p \in Pieces(text)} \ {<<>>, SentinelDash, SentinelNone}

\* max(0, available_count) of the roster entry with that id, 0 when there is none
AvailableOf(roster, id) ==
    IF \E i \in DOMAIN roster : roster[i].equipment_id = id
        THEN LET i == CHOOSE i \in DOMAIN roster : roster[i].equipment_id = id
             IN  IF roster[i].available_count < 0 THEN 0 ELSE roster[i].available_count
        ELSE 0

RECURSIVE Pooled(_, _)
Pooled(roster, ids) ==
    IF ids = {} THEN 0
    ELSE LET id == CHOOSE x \in ids : TRUE
         IN  AvailableOf(roster, id) + Pooled(roster, ids \ {id})

NonNegative(x) == IF RLt(x, Zero) THEN Zero ELSE x

EffectiveHours(phase, roster) ==
    LET pooled == Pooled(roster, NamedIds(phase.equipment_id))
    IN  IF pooled = 0 THEN NonNegative(phase.planned_hours)
        ELSE RDiv(NonNegative(phase.planned_hours), R(pooled))

\* effective_hours x (1 - completion_ratio)
RemainingOf(phase, roster) ==
    LET planned == phase.planned_hours
        done == IF RLt(phase.completed_hours, Zero) THEN Zero
                ELSE IF RLt(planned, phase.completed_hours) THEN planned
                ELSE phase.completed_hours
    IN  IF RLe(planned, Zero) THEN EffectiveHours(phase, roster)
        ELSE RMul(EffectiveHours(phase, roster), RSub(One, RDiv(done, planned)))

\* the largest element of a non-empty set of rationals
RMaxOf(S) == CHOOSE x \in S : \A y \in S : RLe(y, x)

RECURSIVE RSumOver(_, _)
RSumOver(f, S) ==
    IF S = {} THEN Zero
    ELSE LET i == CHOOSE x \in S : TRUE IN RAdd(f[i], RSumOver(f, S \ {i}))

\* sequential remainders plus, per group id > 0, the largest remainder of the group
ProductRemaining(product, roster) ==
    LET phases == product.phases
        rem == [j \in DOMAIN phases |-> RemainingOf(phases[j], roster)]
        sequential == {j \in DOMAIN phases : phases[j].parallel_group = 0}
        groups == {phases[j].parallel_group : j \in DOMAIN phases} \ {0}
        gated == [g \in groups |->
                     RMaxOf({rem[j] : j \in {k \in DOMAIN phases : phases[k].parallel_group = g}})]
    IN  RAdd(RSumOver(rem, sequential), RSumOver(gated, groups))

OrderRemaining(o) ==
    RSumOver([i \in DOMAIN o.products |-> ProductRemaining(o.products[i], o.equipment)],
             DOMAIN o.products)

TwoInOneGroup == <<Product("P1", 1, 0, <<Phase(5, 0, 1, <<>>), Phase(8, 0, 1, <<>>)>>)>>

\* C9: the workload of a product is the sum of the remainders of its group-0 phases plus,
\* for each group id > 0 of that product, the largest remainder in the group (5 and 8 in
\* one group give 8); the order's workload is the plain sum over its products.
C9_GroupCollapsing ==
    \A c \in Calls :
        Started(c) =>
            /\ remaining_hours[c] = OrderRemaining(order[c])
            /\ \A i \in DOMAIN order[c].products :
                   explanation[c][i + 1].hours =
                       ProductRemaining(order[c].products[i], order[c].equipment)
            /\ order[c].products = TwoInOneGroup => remaining_hours[c] = R(8)

\* two products that both use group 1, one of them with two phases in that group
C9_Witness ==
    /\ pc[1] = "returned"
    /\ Len(order[1].products) = 2
    /\ \A i \in 1..2 : \E j \in DOMAIN order[1].products[i].phases :
           order[1].products[i].phases[j].parallel_group = 1
    /\ Len(order[1].products[1].phases) = 2
    /\ order[1].products[1].phases[1].parallel_group = 1
    /\ order[1].products[1].phases[2].parallel_group = 1
    /\ order[1].products[1].phases[1].planned_hours # order[1].products[1].phases[2].planned_hours

SpecExample == Phase(10, 0, 0, <<"A", ",", "B">>)

\* C10: the effective hours of a phase are max(0, planned_hours) divided by the summed
\* max(0, available_count) of the distinct machines it names (0 for a machine that is not
\* in the roster), undivided when it names none or the sum is 0; {A:1, B:0}, 10 planned
\* hours on A,B give 10.
C10_EquipmentPooling ==
    \A c \in Calls :
        Started(c) =>
            /\ \A i \in DOMAIN order[c].products :
                   \A j \in DOMAIN order[c].products[i].phases :
                       _phase_effective_hours(order[c].products[i].phases[j],
                                              order[c].products[i].quantity,
                                              _equipment_available_map(order[c]))
                           = EffectiveHours(order[c].products[i].phases[j], order[c].equipment)
            /\ (Len(order[c].products) = 1 /\ Len(order[c].products[1].phases) = 1
                    /\ order[c].products[1].phases[1].completed_hours = Zero) =>
                   remaining_hours[c] =
                       EffectiveHours(order[c].products[1].phases[1], order[c].equipment)
            /\ (Len(order[c].products) = 1 /\ order[c].products[1].phases = <<SpecExample>>
                    /\ order[c].equipment = <<Equipment(IdA, 1, 1), Equipment(IdB, 1, 0)>>) =>
                   remaining_hours[c] = R(10)

\* a phase that names the same machine twice, pooled over 2 available machines
C10_Witness ==
    /\ pc[1] = "returned"
    /\ Len(order[1].products) = 1
    /\ Len(order[1].products[1].phases) = 1
    /\ order[1].products[1].phases[1].equipment_id = <<"A", ",", " ", "A">>
    /\ RLt(Zero, order[1].products[1].phases[1].planned_hours)
    /\ remaining_hours[1] = R(5)

-----------------------------------------------------------------------------
(* Quantities: the products table edits quantity and produced quantity, and *)
(* _product_quantity_progress is what the table shows for a product.        *)

MaxQuantity == 3

\* the cell texts typed into the quantity and produced-quantity columns
CellValues == {-1, 0, 2, 5}

\* quantity 10 with 3 produced and every phase hour-complete
SpecQuantityExample == FinishedWorkloads \cap {w \in FinishedWorkloads : Len(w) = 1 /\ w[1].quantity = 10}

QuantityProducts ==
    {Product("P1", quantity, produced, phases) :
        quantity \in -1..MaxQuantity, produced \in -1..(MaxQuantity + 1),
        phases \in {<<>>, <<Phase(20, 5, 0, <<>>)>>}}
    \cup {w[1] : w \in SpecQuantityExample}

InitQuantity ==
    \/ \E template \in WorkingTemplates, products \in FinishedWorkloads \cup OpenWorkloads :
           InitCalls(Order(R(8), products, <<>>, <<>>), template)
    \/ \E product \in QuantityProducts :
           InitLibrary(Called("_product_quantity_progress", [product |-> product]))

Eval__product_quantity_progress ==
    /\ Entered("_product_quantity_progress")
    /\ call' = [call EXCEPT !.pc = "returned",
                            !.ret = _product_quantity_progress(call.arg.product)]
    /\ UNCHANGED engine

NextQuantity ==
    \/ \E c \in Calls : Begin(c)
    \/ \E c \in Calls : DayStep(c)
    \/ \E row \in 1..2, col \in {2, 3}, value \in CellValues :
           on_product_cell_changed(row, col, value)
    \/ refresh_eta
    \/ Eval__product_quantity_progress

SpecQuantity == InitQuantity /\ [][NextQuantity]_vars

\* min(max(produced_qty, 0), quantity) / quantity, 0 when quantity <= 0
QuantityProgress(product) ==
    IF product.quantity <= 0 THEN Zero
    ELSE LET made == IF product.produced_qty < 0 THEN 0 ELSE product.produced_qty
         IN  Norm(IF made < product.quantity THEN made ELSE product.quantity, product.quantity)

\* the two orders differ in nothing but quantity and produced_qty of their products
OnlyQuantitiesDiffer(o1, o2) ==
    /\ Len(o1.products) = Len(o2.products)
    /\ o2 = [o1 EXCEPT !.products =
                 [i \in DOMAIN o1.products |->
                     [o1.products[i] EXCEPT !.quantity = o2.products[i].quantity,
                                            !.produced_qty = o2.products[i].produced_qty]]]

\* C11: _product_quantity_progress is min(max(produced_qty, 0), quantity) / quantity (0 when
\* quantity <= 0) whatever the phases are; changing only quantity or produced_qty of a
\* product changes neither _product_remaining_hours, nor _product_progress, nor the
\* workload and finish instant of compute_eta; quantity 10 with 3 produced and all phases
\* hour-complete gives quantity progress 3/10 and hour progress 1.
C11_QuantityIndependence ==
    /\ Returned("_product_quantity_progress") =>
           /\ call.ret = QuantityProgress(call.arg.product)
           /\ call.arg.product \in {w[1] : w \in SpecQuantityExample} =>
                  /\ call.ret = <<3, 10>>
                  /\ _product_progress(call.arg.product, _equipment_available_map_from_list(Roster)) = One
    /\ (edit.handler = "on_product_cell_changed" /\ OnlyQuantitiesDiffer(order[1], order[2])) =>
           /\ \A i \in DOMAIN order[1].products :
                  LET equipment_map == _equipment_available_map(order[1])
                  IN  /\ _product_remaining_hours(order[2].products[i], equipment_map)
                             = _product_remaining_hours(order[1].products[i], equipment_map)
                      /\ _product_progress(order[2].products[i], equipment_map)
                             = _product_progress(order[1].products[i], equipment_map)
           /\ Started(2) => remaining_hours[2] = remaining_hours[1]
           /\ pc[2] = "returned" =>
                  /\ pc[1] = "returned"
                  /\ result[2].eta_dt = result[1].eta_dt
                  /\ result[2].daily_capacity_map = result[1].daily_capacity_map

\* the quantity of a pooled product was edited and the finish of the 30h workload recomputed
C11_Witness ==
    /\ edit.handler = "on_product_cell_changed"
    /\ pc[2] = "returned"
    /\ order[1].products[1].quantity # order[2].products[1].quantity
    /\ order[1].products[1].produced_qty = order[2].products[1].produced_qty
    /\ remaining_hours[2] = R(30)
    /\ current_day[2] > 0

-----------------------------------------------------------------------------
(* Overtime ledger: adjustments that name machines of the roster, machines  *)
(* the roster does not have, and none, over rosters with different counts.  *)

MaxOvertime == 2

IdZ == <<"Z">>

\* on Monday and Tuesday: for no machine, for A, for A and B, for Z which no roster has, and
\* one and a half hours for B, Z and C
OvertimeMenu ==
    { Adjustment(0, 1, <<>>), Adjustment(0, 2, <<IdA>>), Adjustment(0, 1, <<IdA, IdB>>),
      Adjustment(1, 2, <<IdZ>>), Adjustment(1, 1, <<IdB, IdZ, IdC>>),
      [Adjustment(1, 0, <<IdA, IdB>>) EXCEPT !.extra_hours = <<3, 2>>] }

\* the roster of the orders above, one with other counts, and an empty one
OvertimeRosters ==
    { Roster, <<Equipment(IdA, 3, 0), Equipment(IdB, 4, 4)>>, <<>> }

InitOvertime ==
    \E adjustments \in SeqsUpTo(OvertimeMenu, MaxOvertime), roster \in OvertimeRosters,
       events \in {<<>>, <<Event(1, 8)>>},
       products \in { <<Product("P1", 1, 0, <<Phase(20, 0, 0, <<>>)>>)>>,
                      <<Product("P1", 1, 0, <<Phase(48, 0, 0, <<"A", ",", "B">>)>>)>> } :
        InitCalls([Order(R(8), products, events, adjustments) EXCEPT !.equipment = roster],
                  Template8)

NextOvertime ==
    \/ \E c \in Calls : Begin(c)
    \/ \E c \in Calls : DayStep(c)

SpecOvertime == InitOvertime /\ [][NextOvertime]_vars

\* the days that have an adjustment
OvertimeDays(o) == {o.adjustments[i].day : i \in DOMAIN o.adjustments}

\* extra_hours times the number of machines the adjustment names, 1 when it names none
Bonus(adj) ==
    LET named == Cardinality({adj.equipment_ids[i] : i \in DOMAIN adj.equipment_ids})
    IN  RMul(adj.extra_hours, R(IF named = 0 THEN 1 ELSE named))

BonusOn(o, x) ==
    RSumOver([i \in DOMAIN o.adjustments |-> Bonus(o.adjustments[i])],
             {i \in DOMAIN o.adjustments : o.adjustments[i].day = x})

\* C12: the bonus of a date is the sum over the adjustments of that date of extra_hours
\* times the number of machines named (1 when none is named), whatever the roster holds;
\* that bonus is what the day's recorded capacity contains.
C12_OvertimeMultiplier ==
    \A c \in Calls :
        Started(c) =>
            /\ DOMAIN extra_map[c] = OvertimeDays(order[c])
            /\ \A x \in OvertimeDays(order[c]) : extra_map[c][x] = BonusOn(order[c], x)
            /\ Finished(c) =>
                   \A x \in OvertimeDays(order[c]) \cap (StartDay(c)..current_day[c]) :
                       /\ x \in DOMAIN result[c].daily_capacity_map
                       /\ LET raw == RAdd(RSub(BaseOn(shift_template, x), LostOn(order[c], x)),
                                          BonusOn(order[c], x))
                          IN  result[c].daily_capacity_map[x] = RMax(raw, Zero)

\* Tuesday's 8h are lost and its overtime names three machines, one of them unknown, under
\* an empty roster
C12_Witness ==
    /\ Finished(1)
    /\ order[1].equipment = <<>>
    /\ order[1].events # <<>>
    /\ Len(order[1].adjustments) = 2
    /\ order[1].adjustments[1] = Adjustment(1, 1, <<IdB, IdZ, IdC>>)
    /\ order[1].adjustments[2].day = 1
    /\ current_day[1] > 1

-----------------------------------------------------------------------------
(* Two callers inside compute_eta at once, their steps interleaved in every *)
(* order.                                                                   *)

PooledWithLedger ==
    Order(R(8), <<Product("P1", 2, 0, <<Phase(60, 0, 1, <<"A", ",", "B">>), Phase(10, 5, 1, <<>>)>>)>>,
          <<Event(0, 4)>>, <<Adjustment(0, 1, <<IdA, IdB>>)>>)
FinishedOrder == Order(R(8), <<Product("P1", 3, 3, <<Phase(10, 10, 0, <<"A">>)>>)>>, <<>>, <<>>)
\* 20h that a closed calendar never consumes, and 4h that Tuesday's overtime consumes
Infeasible == ScenarioB
OvertimeOnly ==
    Order(R(8), <<Product("P1", 1, 0, <<Phase(5, 1, 0, <<>>)>>)>>, <<>>,
          <<Adjustment(1, 2, <<IdA, IdB>>)>>)

ConcurrentOrders == {ScenarioA, ScenarioB, PooledWithLedger, FinishedOrder}

\* under a closed calendar one caller at most runs the 3650 iterations
InitConcurrent ==
    \/ \E o1 \in ConcurrentOrders, o2 \in ConcurrentOrders, template \in WorkingTemplates :
           InitPair(o1, o2, template)
    \/ \E pair \in { <<Infeasible, OvertimeOnly>>, <<OvertimeOnly, Infeasible>>,
                      <<Infeasible, FinishedOrder>>, <<OvertimeOnly, OvertimeOnly>> } :
           InitPair(pair[1], pair[2], TemplateZero)
    \* 40h with two events on Monday and two adjustments on Monday, and the same order
    \* with the lists in another order or with Monday's events replaced by their total
    \/ \E f \in [1..3 -> 1..3], g \in [1..3 -> 1..3], merged \in BOOLEAN,
          template \in WorkingTemplates :
           LET events == <<Event(0, 4), Event(1, 8), Event(0, 2)>>
               adjustments == <<Adjustment(0, 1, <<IdA, IdB>>), Adjustment(2, 2, <<>>),
                                Adjustment(0, 2, <<>>)>>
               products == <<Product("P1", 1, 0, <<Phase(40, 0, 0, <<>>)>>)>>
           IN  /\ \A i, j \in 1..3 : f[i] = f[j] => i = j
               /\ \A i, j \in 1..3 : g[i] = g[j] => i = j
               /\ merged => f = [i \in 1..3 |-> i]
               /\ InitPair(Order(R(8), products, events, adjustments),
                           Order(R(8), products,
                                 IF merged THEN <<Event(1, 8), Event(0, 6)>>
                                 ELSE [i \in 1..3 |-> events[f[i]]],
                                 [i \in 1..3 |-> adjustments[g[i]]]),
                           template)
    \* 40h planned in one phase, started on Monday at 08:00 or at 15:30, beside the same
    \* order with as many or more hours completed
    \/ \E completed1 \in {0, 5, 6, 36, 40}, completed2 \in {0, 5, 6, 36, 40},
          start \in {R(8), <<31, 2>>}, template \in WorkingTemplates :
           /\ completed1 <= completed2
           /\ InitPair(Order(start, <<Product("P1", 1, 0, <<Phase(40, completed1, 0, <<>>)>>)>>,
                             <<>>, <<>>),
                       Order(start, <<Product("P1", 1, 0, <<Phase(40, completed2, 0, <<>>)>>)>>,
                             <<>>, <<>>),
                       template)
    \* 20h started on Wednesday 2024-01-03 with a loss on Thursday and overtime on
    \* Wednesday, beside the same order with more events and adjustments, dated Monday,
    \* Tuesday or 2024-01-31
    \/ \E more_events \in { <<>>, <<Event(0, 8)>>, <<Event(1, 4)>>, <<Event(30, 8)>>,
                             <<Event(30, 8), Event(1, 4), Event(0, 8)>> },
          more_adjustments \in { <<>>, <<Adjustment(1, 2, <<>>)>>,
                                  <<Adjustment(30, 2, <<IdA>>)>>,
                                  <<Adjustment(1, 2, <<>>), Adjustment(30, 2, <<IdA>>)>> },
          template \in WorkingTemplates :
           LET products == <<Product("P1", 1, 0, <<Phase(20, 0, 0, <<>>)>>)>>
           IN  InitPair(Order(R(56), products, <<Event(3, 4)>>,
                              <<Adjustment(2, 1, <<IdA, IdB>>)>>),
                        Order(R(56), products, more_events \o <<Event(3, 4)>>,
                              <<Adjustment(2, 1, <<IdA, IdB>>)>> \o more_adjustments),
                        template)

NextConcurrent ==
    \/ \E c \in Calls : Begin(c)
    \/ \E c \in Calls : DayStep(c)
    \/ \E c \in Calls : Raise(c)

SpecConcurrent == InitConcurrent /\ [][NextConcurrent]_vars

\* what one invocation holds: its position, its locals and what it returned
Locals(c) ==
    <<pc[c], remaining_hours[c], lost_map[c], reason_map[c], extra_map[c], extra_reason_map[c],
      explanation[c], current_day[c], hours_left[c], daily_capacity_map[c], iter[c], result[c]>>

\* day x has base capacity, a loss or overtime
Recorded(o, t, x) ==
    RLt(Zero, BaseOn(t, x)) \/ RLt(Zero, LostOn(o, x)) \/ RLt(Zero, ExtraOn(o, x))

\* the capacity trace of the days a..b
TraceOf(o, t, a, b) == [x \in {y \in a..b : Recorded(o, t, y)} |-> NetOn(o, t, x)]

\* the net capacity of the whole horizon under a template without base capacity: only days
\* with an adjustment can have any
HorizonNet(o, t) ==
    LET first == DateOf(o.start_dt)
        days == {x \in OvertimeDays(o) : first <= x /\ x < first + MaxIterations}
    IN  RSumOver([x \in days |-> NetOn(o, t, x)], days)

\* the outcome of invocation c is the one its own order and the template determine
OutcomeAlone(c) ==
    LET o == order[c]
        rem == OrderRemaining(o)
        first == DateOf(o.start_dt)
        day == current_day[c]
    IN  /\ Started(c) => remaining_hours[c] = rem
        /\ (pc[c] = "returned" /\ RLe(rem, Zero)) =>
               /\ result[c].eta_dt = o.start_dt
               /\ result[c].remaining_hours = Zero
               /\ result[c].daily_capacity_map = EmptyMap
        /\ (pc[c] = "returned" /\ RLt(Zero, rem)) =>
               /\ RLe(rem, CumNet(o, shift_template, first, day))
               /\ RLt(CumNet(o, shift_template, first, day - 1), rem)
               /\ result[c].eta_dt =
                      RAdd(R(day * 24 + 9), RSub(rem, CumNet(o, shift_template, first, day - 1)))
               /\ result[c].remaining_hours = rem
               /\ result[c].daily_capacity_map = TraceOf(o, shift_template, first, day)
        /\ pc[c] = "raised" =>
               /\ YieldsNoBase(shift_template)
               /\ RLt(HorizonNet(o, shift_template), rem)

Done(c) == pc[c] \in {"returned", "raised"}

\* C13: with the steps of two invocations interleaved in any order, each invocation ends
\* with the finish instant, remaining_hours and capacity trace, or with the failure, that
\* its own order and the template determine; two invocations on the same order end alike;
\* and every step changes the locals of one invocation only and neither order nor template.
C13_ConcurrencySafety ==
    /\ [](/\ \A c \in Calls : OutcomeAlone(c)
          /\ (order[1] = order[2] /\ Done(1) /\ Done(2)) =>
                 (pc[1] = pc[2] /\ result[1] = result[2]))
    /\ [][/\ \E c \in Calls : \A d \in Calls \ {c} : Locals(d)' = Locals(d)
          /\ order' = order
          /\ shift_template' = shift_template]_vars

\* one caller failed after 3650 days while the other, entered and left in between, got a
\* finish instant
C13_Witness ==
    /\ pc[1] = "raised"
    /\ pc[2] = "returned"
    /\ RLt(Zero, remaining_hours[2])
    /\ order[1] # order[2]

-----------------------------------------------------------------------------
(* The horizon: orders whose only capacity lies on the last day the loop    *)
(* examines, or on the first day it does not.                               *)

\* with the start on day 0 the loop examines the days 0..3649
LastDay == MaxIterations - 1
Beyond == MaxIterations

HorizonEvents == {<<>>, <<Event(Beyond, 8)>>, <<Event(LastDay, 1)>>}
HorizonAdjustments ==
    { <<>>, <<Adjustment(LastDay, 2, <<IdA, IdB>>)>>, <<Adjustment(Beyond, 2, <<IdA, IdB>>)>>,
      <<Adjustment(Beyond, 2, <<IdA, IdB>>), Adjustment(LastDay, 2, <<IdA, IdB>>)>> }

InitHorizon ==
    \/ \E events \in HorizonEvents, adjustments \in HorizonAdjustments :
           InitCalls(Order(R(8), <<Product("P1", 1, 0, <<Phase(5, 1, 0, <<>>)>>)>>,
                           events, adjustments), TemplateZero)
    \/ \E adjustments \in HorizonAdjustments :
           InitCalls(Order(R(8), <<Product("P1", 1, 0, <<Phase(5, 1, 0, <<>>)>>)>>,
                           <<>>, adjustments), NoTemplate)
    \/ \E o \in ConcurrentOrders, start \in Starts, template \in WorkingTemplates :
           InitCalls([o EXCEPT !.start_dt = start], template)
    \* 2608 working days of 8h lie in the 3650 days from Monday 2024-01-01: 20864h
    \/ \E planned \in {20864, 20865}, events \in {<<>>, <<Event(LastDay, 1)>>},
          adjustments \in {<<>>, <<Adjustment(LastDay, 2, <<IdA, IdB>>)>>} :
           InitCalls(Order(R(8), <<Product("P1", 1, 0, <<Phase(planned, 0, 0, <<>>)>>)>>,
                           events, adjustments), Template8)

NextHorizon ==
    \/ Begin(1)
    \/ DayStep(1)
    \/ Raise(1)

\* invocation c moves on: any of Begin, DayStep and Raise changes its position or its loop
\* counter, and one of them can whenever it has not returned or raised
Runs(c) ==
    /\ pc[c] \in {"start", "loop"}
    /\ \E position \in {"loop", "returned", "raised"}, count \in {0, iter[c], iter[c] + 1} :
           /\ pc' = [pc EXCEPT ![c] = position]
           /\ iter' = [iter EXCEPT ![c] = count]

\* compute_eta is synchronous: once called it runs on until it returns or raises
SpecHorizon ==
    /\ InitHorizon
    /\ [][NextHorizon]_vars
    /\ WF_<<pc, iter>>(Runs(1))

\* the calendar day the start instant falls on
StartDate(o) ==
    CHOOSE d \in 0..MaxIterations : RLe(R(24 * d), o.start_dt) /\ RLt(o.start_dt, R(24 * (d + 1)))

\* the order without the events and adjustments dated on or after start date + 3650 days
Near(o) ==
    LET InHorizon(e) == e.day < StartDate(o) + MaxIterations
    IN  [o EXCEPT !.events = SelectSeq(o.events, InHorizon),
                  !.adjustments = SelectSeq(o.adjustments, InHorizon)]

\* how many of the days a..b fall on weekday w
WeekdayCount(a, b, w) ==
    IF b < a THEN 0
    ELSE (b - a + 1) \div 7 + (IF (w + 7 - (a % 7)) % 7 < (b - a + 1) % 7 THEN 1 ELSE 0)

\* the days a..b that have an event or an adjustment
LedgerDays(o, a, b) ==
    {x \in {o.events[i].day : i \in DOMAIN o.events} \cup OvertimeDays(o) : a <= x /\ x <= b}

\* the net capacity of the days a..b: the base capacity weekday by weekday, and on the
\* days with an event or an adjustment the net capacity in place of the base capacity
NetOver(o, t, a, b) ==
    LET base == [w \in 0..6 |-> RMul(R(WeekdayCount(a, b, w)), BaseOn(t, w))]
        change == [x \in LedgerDays(o, a, b) |-> RSub(NetOn(o, t, x), BaseOn(t, x))]
    IN  RAdd(RSumOver(base, 0..6), RSumOver(change, LedgerDays(o, a, b)))

\* what the days of the horizon alone make the outcome
WithinHorizon(c) ==
    LET o == Near(order[c])
        first == StartDate(order[c])
        day == current_day[c]
    IN  /\ Finished(c) =>
               /\ day < first + MaxIterations
               /\ RLe(remaining_hours[c], NetOver(o, shift_template, first, day))
               /\ result[c].eta_dt =
                      RAdd(R(day * 24 + 9),
                           RSub(remaining_hours[c], NetOver(o, shift_template, first, day - 1)))
               /\ \A x \in DOMAIN result[c].daily_capacity_map :
                      first <= x /\ x <= day
                          /\ result[c].daily_capacity_map[x] = NetOn(o, shift_template, x)
        /\ pc[c] = "raised" =>
               /\ iter[c] = MaxIterations
               /\ RLt(NetOver(o, shift_template, first, first + MaxIterations - 1),
                      remaining_hours[c])

\* C14: every invocation ends, by a result or by the bounded-computation error; the loop
\* examines the days start date, start date + 1, ... one after the other, 3650 of them at
\* most, and the outcome is the one of the order without its events and adjustments dated
\* on or after start date + 3650 days.
C14_BoundedTermination ==
    /\ [](\A c \in Calls :
              /\ pc[c] = "loop" =>
                     iter[c] <= MaxIterations /\ current_day[c] = StartDate(order[c]) + iter[c]
              /\ WithinHorizon(c))
    /\ [][\A c \in Calls :
              (pc[c] = "loop" /\ current_day'[c] # current_day[c]) =>
                  (current_day'[c] = current_day[c] + 1 /\ iter'[c] = iter[c] + 1)]_vars
    /\ (pc[1] = "start") ~> Done(1)

\* overtime on the last day of the horizon was used although more overtime lies beyond it
C14_Witness ==
    /\ Finished(1)
    /\ current_day[1] = LastDay
    /\ \E i \in DOMAIN order[1].adjustments : order[1].adjustments[i].day = Beyond
    /\ \E i \in DOMAIN order[1].events : order[1].events[i].day = Beyond

-----------------------------------------------------------------------------
(* Degenerate inputs: no template, phases without machines or with machines *)
(* no roster has, planned hours of 0 and below.                             *)

\* workloads of 0h, 0h, 0h, 4h, 4h and 8h
DegenerateWorkloads ==
    { <<>>,
      <<Phase(-6, 0, 0, <<>>)>>,
      <<Phase(0, 0, 0, <<"Z">>), Phase(-6, 2, 0, <<"-">>)>>,
      <<Phase(4, 0, 0, <<"Z">>)>>,
      <<Phase(4, 0, 0, <<>>), Phase(-6, 0, 0, <<"Z">>)>>,
      <<Phase(4, 0, 0, SentinelNone), Phase(4, 0, 0, <<"Z", ",", " ">>)>> }

\* no overtime; 4h on Tuesday; 1h on Monday and 3h on Wednesday; 4h on Tuesday and Thursday
DegenerateAdjustments ==
    { <<>>, <<Adjustment(1, 2, <<IdA, IdB>>)>>,
      <<Adjustment(0, 1, <<>>), Adjustment(2, 3, <<IdA>>)>>,
      <<Adjustment(1, 2, <<IdA, IdB>>), Adjustment(3, 2, <<IdA, IdB>>)>> }

DegenerateEvents == {<<>>, <<Event(1, 8)>>, <<Event(1, 1)>>}

InitDegenerate ==
    \E phases \in DegenerateWorkloads, adjustments \in DegenerateAdjustments,
       events \in DegenerateEvents :
        InitCalls(Order(R(8), <<Product("P1", 1, 0, phases)>>, events, adjustments), NoTemplate)

NextDegenerate ==
    \/ Begin(1)
    \/ DayStep(1)
    \/ Raise(1)

SpecDegenerate == InitDegenerate /\ [][NextDegenerate]_vars

\* a rational with a denominator: no division by zero produced it
WellFormed(x) == x[2] > 0

\* the adjustment days the loop examines
HorizonDays(o) ==
    {x \in OvertimeDays(o) : StartDate(o) <= x /\ x < StartDate(o) + MaxIterations}

\* the overtime of the horizon, and what is left of it after the losses of the same days
OvertimeSupplied(o) == RSumOver([x \in HorizonDays(o) |-> BonusOn(o, x)], HorizonDays(o))
OvertimeLeft(o) ==
    RSumOver([x \in HorizonDays(o) |-> NonNegative(RSub(BonusOn(o, x), LostOn(o, x)))],
             HorizonDays(o))

\* the workload when nothing is pooled: max(0, planned_hours) less the completed share
Unpooled(o) ==
    RSumOver([i \in DOMAIN o.products |->
                 RSumOver([j \in DOMAIN o.products[i].phases |->
                              RemainingOf(o.products[i].phases[j], <<>>)],
                          DOMAIN o.products[i].phases)],
             DOMAIN o.products)

\* what C15 says of every input but the last clause
Absorbed(c) ==
    /\ pc[c] \in {"idle", "start", "loop", "returned", "raised"}
    /\ Started(c) =>
           /\ WellFormed(remaining_hours[c])
           /\ remaining_hours[c] = Unpooled(order[c])
           /\ RLe(remaining_hours[c], Zero) =>
                  (pc[c] = "returned" /\ result[c].eta_dt = order[c].start_dt)
    /\ pc[c] = "returned" =>
           /\ WellFormed(result[c].eta_dt)
           /\ \A x \in DOMAIN result[c].daily_capacity_map :
                  result[c].daily_capacity_map[x] =
                      NonNegative(RSub(BonusOn(order[c], x), LostOn(order[c], x)))
    /\ pc[c] = "raised" => iter[c] = MaxIterations

\* C15 as claimed: without a template, an order with remaining_hours > 0 gets a finish
\* instant whenever the adjustments of the horizon add up to remaining_hours or more.
C15_OvertimeSuffices ==
    \A c \in Calls :
        /\ Absorbed(c)
        /\ (shift_template.absent /\ Started(c) /\ RLt(Zero, remaining_hours[c])
                /\ RLe(remaining_hours[c], OvertimeSupplied(order[c]))) =>
               pc[c] # "raised"

\* C15: an absent template counts as 0 capacity, machines that are not named or not in
\* the roster pool nothing, planned hours <= 0 are 0 workload, and the only failure is the
\* error after 3650 iterations; without a template an order with remaining_hours > 0 gets
\* a finish instant whenever the overtime of the horizon, less the losses of the same days,
\* adds up to remaining_hours or more, and fails otherwise.
C15_DegenerateTolerance ==
    \A c \in Calls :
        /\ Absorbed(c)
        /\ (shift_template.absent /\ Started(c) /\ RLt(Zero, remaining_hours[c])) =>
               /\ RLe(remaining_hours[c], OvertimeLeft(order[c])) => pc[c] # "raised"
               /\ RLt(OvertimeLeft(order[c]), remaining_hours[c]) => pc[c] # "returned"

\* 8h over two phases, one naming an unknown machine, finished on Thursday's overtime
\* after Tuesday's was partly lost
C15_Witness ==
    /\ pc[1] = "returned"
    /\ shift_template.absent
    /\ remaining_hours[1] = R(4)
    /\ Len(order[1].products[1].phases) = 2
    /\ order[1].events = <<Event(1, 1)>>
    /\ current_day[1] = 3

-----------------------------------------------------------------------------
(* Capacity calendar: hours_for_weekday and capacity_for_day called with    *)
(* week plans of every length and weekday indices around 0..6.              *)

MaxWeekLen == 8

\* one 8h shift, two 17h shifts, no shift, a negative shift count, negative hours
PlanMenu == <<Plan(1, 8), Plan(2, 17), Plan(0, 8), Plan(-1, 8), Plan(1, -2)>>

\* week plans of 0..MaxWeekLen entries that run through the menu from a shifted start
WeekPlans ==
    {[i \in 1..n |-> PlanMenu[((i + k) % Len(PlanMenu)) + 1]] :
        n \in 0..MaxWeekLen, k \in 0..(Len(PlanMenu) - 1)}

InitCalendar ==
    \/ \E week_plan \in WeekPlans, w \in -1..(MaxWeekLen + 1) :
           InitLibrary(Called("hours_for_weekday",
                              [template |-> Template("t", week_plan), weekday |-> w]))
    \/ \E template \in {NoTemplate} \cup {Template("t", week_plan) : week_plan \in WeekPlans},
          d \in 0..MaxWeekLen :
           InitLibrary(Called("capacity_for_day", [template |-> template, d |-> d]))

Eval_hours_for_weekday ==
    /\ Entered("hours_for_weekday")
    /\ call' = [call EXCEPT !.pc = "returned",
                            !.ret = hours_for_weekday(call.arg.template, call.arg.weekday)]
    /\ UNCHANGED engine

Eval_capacity_for_day ==
    /\ Entered("capacity_for_day")
    /\ call' = [call EXCEPT !.pc = "returned",
                            !.ret = capacity_for_day(call.arg.template, call.arg.d)]
    /\ UNCHANGED engine

NextCalendar ==
    \/ Eval_hours_for_weekday
    \/ Eval_capacity_for_day

SpecCalendar == InitCalendar /\ [][NextCalendar]_vars

\* max(0, shift_count) x max(0, hours_per_shift)
PlanHours(plan) ==
    RMul(R(IF plan.shift_count < 0 THEN 0 ELSE plan.shift_count),
         NonNegative(plan.hours_per_shift))

\* C16 as claimed: hours_for_weekday(w) is 0 when week_plan has fewer than 7 entries or w
\* is outside 0..6, whatever the length of the week plan, and max(0, shift_count) x
\* max(0, hours_per_shift) of week_plan[w] otherwise; capacity_for_day is 0 without a
\* template and never negative.
C16_CapacityCalendar ==
    /\ Returned("hours_for_weekday") =>
           LET week_plan == call.arg.template.week_plan
               w == call.arg.weekday
           IN  call.ret = IF Len(week_plan) < 7 \/ w < 0 \/ w > 6 THEN Zero
                          ELSE PlanHours(week_plan[w + 1])
    /\ Returned("capacity_for_day") =>
           /\ call.arg.template.absent => call.ret = Zero
           /\ RLe(Zero, call.ret)

-----------------------------------------------------------------------------
(* Equipment-id texts and lists as the forms of main.py pass them around:   *)
(* a typed text is split, a chosen list is normalised or formatted, a list  *)
(* that came back is normalised again (_set_phase_form_equipment_ids) and a *)
(* formatted text that was stored in a phase is split again                 *)
(* (_phase_effective_hours).                                                *)

MaxItems == 3

\* empty, padded, sentinel, repeated, two-word and comma-carrying entries
ItemMenu ==
    {<<>>, <<"A">>, <<" ", "A", " ">>, <<"B">>, SentinelDash, SentinelNone,
     <<"A", " ", "B">>, <<"A", ",", "B">>}
ItemLists == SeqsUpTo(ItemMenu, MaxItems)

\* `chained` tells a value that an earlier call returned from one the user gave, and
\* `origin` is the argument of that earlier call
InitIds ==
    \/ \E text \in Texts :
           InitLibrary(Called("_split_equipment_ids",
                              [text |-> text, chained |-> FALSE, origin |-> <<>>]))
    \/ \E items \in ItemLists :
           InitLibrary(Called("_normalize_equipment_ids",
                              [items |-> items, chained |-> FALSE, origin |-> <<>>]))
    \/ \E ids \in ItemLists :
           InitLibrary(Called("_format_equipment_ids",
                              [ids |-> ids, chained |-> FALSE, origin |-> <<>>]))

Eval__split_equipment_ids ==
    /\ Entered("_split_equipment_ids")
    /\ call' = [call EXCEPT !.pc = "returned", !.ret = _split_equipment_ids(call.arg.text)]
    /\ UNCHANGED engine

Eval__normalize_equipment_ids ==
    /\ Entered("_normalize_equipment_ids")
    /\ call' = [call EXCEPT !.pc = "returned",
                            !.ret = _normalize_equipment_ids(call.arg.items)]
    /\ UNCHANGED engine

Eval__format_equipment_ids ==
    /\ Entered("_format_equipment_ids")
    /\ call' = [call EXCEPT !.pc = "returned", !.ret = _format_equipment_ids(call.arg.ids)]
    /\ UNCHANGED engine

\* main.py _set_phase_form_equipment_ids: a list that _normalize_equipment_ids returned
\* is normalised once more before it is shown
_set_phase_form_equipment_ids ==
    /\ Returned("_normalize_equipment_ids")
    /\ ~call.arg.chained
    /\ call' = Called("_normalize_equipment_ids",
                      [items |-> call.ret, chained |-> TRUE, origin |-> call.arg.items])
    /\ UNCHANGED engine

\* scheduler.py:59: the text add_phase stored with _format_equipment_ids is split
ReadStoredEquipmentId ==
    /\ Returned("_format_equipment_ids")
    /\ call' = Called("_split_equipment_ids", [text |-> call.ret, chained |-> TRUE,
                       origin |-> call.arg.ids])
    /\ UNCHANGED engine

NextIds ==
    \/ Eval__split_equipment_ids
    \/ Eval__normalize_equipment_ids
    \/ Eval__format_equipment_ids
    \/ _set_phase_form_equipment_ids
    \/ ReadStoredEquipmentId

SpecIds == InitIds /\ [][NextIds]_vars

\* the stretches of the text between its commas, from left to right
TokensOf(text) ==
    LET cuts == {0, Len(text) + 1} \cup {i \in 1..Len(text) : text[i] = Comma}
        cut(k) == CHOOSE c \in cuts : Cardinality({x \in cuts : x < c}) = k - 1
    IN  [k \in 1..(Cardinality(cuts) - 1) |-> SubSeq(text, cut(k) + 1, cut(k + 1) - 1)]

Junk == {<<>>, SentinelDash, SentinelNone}

\* where the id is first seen among the items
FirstSeen(items, id) == MinOf({k \in 1..Len(items) : Trimmed(items[k]) = id})

\* res holds the trimmed items that are neither empty nor a sentinel, each once, in the
\* order in which they are first seen
IsNormalOf(res, items) ==
    /\ \A i, j \in 1..Len(res) : i # j => res[i] # res[j]
    /\ {res[i] : i \in 1..Len(res)} = {Trimmed(items[k]) : k \in 1..Len(items)} \ Junk
    /\ \A i, j \in 1..Len(res) : i < j => FirstSeen(items, res[i]) < FirstSeen(items, res[j])

CommaFree(ids) == \A k \in 1..Len(ids) : \A i \in 1..Len(ids[k]) : ids[k][i] # Comma

\* C17: _split_equipment_ids returns the trimmed comma-separated tokens of the text that
\* are neither empty nor a sentinel, without duplicates, in first-seen order;
\* _normalize_equipment_ids does the same for a list and returns a normalised list
\* unchanged; splitting the text _format_equipment_ids made of comma-free ids gives the
\* normalised ids.
C17_IdNormalization ==
    /\ Returned("_split_equipment_ids") =>
           /\ IsNormalOf(call.ret, TokensOf(call.arg.text))
           /\ (call.arg.chained /\ CommaFree(call.arg.origin)) =>
                  IsNormalOf(call.ret, call.arg.origin)
    /\ Returned("_normalize_equipment_ids") =>
           /\ IsNormalOf(call.ret, call.arg.items)
           /\ call.arg.chained => call.ret = call.arg.items

\* a stored list with a padded repeat and a sentinel came back from the text as two ids
C17_Witness ==
    /\ Returned("_split_equipment_ids")
    /\ call.arg.chained
    /\ call.arg.origin = <<<<"B">>, <<" ", "A", " ">>, SentinelDash>>
    /\ call.arg.text = <<"B", ",", "A">>
    /\ call.ret = <<<<"B">>, <<"A">>>>

-----------------------------------------------------------------------------
(* Progress figures of the dashboard: _phase_completion_ratio of one phase  *)
(* and _product_progress of one product, as the tables of main.py call them.*)

\* planned and completed hours below, at and above each other and below 0
PlannedHours == {-2, 0, 3, 4}
CompletedHours == {-1, 0, 2, 4, 6}
Quantities == {0, 1, 5}

\* a quarter done, overdone on two pooled machines, planned below 0, completed below 0
\* on one machine: each sequential or in group 1
ProgressPhases ==
    UNION {{Phase(4, 1, g, <<>>), Phase(12, 20, g, <<"A", ",", "B">>),
            Phase(-2, 1, g, <<>>), Phase(8, -1, g, <<"A">>)} : g \in 0..1}

InitProgress ==
    \/ \E planned \in PlannedHours, completed \in CompletedHours, quantity \in Quantities :
           InitLibrary(Called("_phase_completion_ratio",
                              [phase |-> Phase(planned, completed, 0, <<>>),
                               quantity |-> quantity]))
    \/ \E phases \in SeqsUpTo(ProgressPhases, MaxPhases), quantity \in {1, 3},
          roster \in Rosters :
           \E fn \in {"_product_progress", "_product_remaining_hours"} :
               InitLibrary(Called(fn, [product |-> Product("P1", quantity, 0, phases),
                                       equipment |-> roster]))

Eval__phase_completion_ratio ==
    /\ Entered("_phase_completion_ratio")
    /\ call' = [call EXCEPT !.pc = "returned",
                            !.ret = _phase_completion_ratio(call.arg.phase, call.arg.quantity)]
    /\ UNCHANGED engine

\* main.py _refresh_dashboard_product_progress: one row of the table
Eval__product_progress ==
    /\ Entered("_product_progress")
    /\ call' = [call EXCEPT !.pc = "returned",
                            !.ret = _product_progress(
                                        call.arg.product,
                                        _equipment_available_map_from_list(call.arg.equipment))]
    /\ UNCHANGED engine

\* compute_eta, product workload summary: hours = _product_remaining_hours(p, equipment_map)
Eval__product_remaining_hours ==
    /\ Entered("_product_remaining_hours")
    /\ call' = [call EXCEPT !.pc = "returned",
                            !.ret = _product_remaining_hours(
                                        call.arg.product,
                                        _equipment_available_map_from_list(call.arg.equipment))]
    /\ UNCHANGED engine

NextProgress ==
    \/ Eval__phase_completion_ratio
    \/ Eval__product_progress
    \/ Eval__product_remaining_hours

SpecProgress == InitProgress /\ [][NextProgress]_vars

Clamp(x, lo, hi) == IF RLt(x, lo) THEN lo ELSE IF RLt(hi, x) THEN hi ELSE x

\* clamp(completed_hours, 0, planned_hours) / planned_hours, 0 when nothing is planned
CompletionOf(phase) ==
    IF RLe(phase.planned_hours, Zero) THEN Zero
    ELSE RDiv(Clamp(phase.completed_hours, Zero, phase.planned_hours), phase.planned_hours)

InUnitInterval(x) == RLe(Zero, x) /\ RLe(x, One)

\* C18: _phase_completion_ratio is 0 when planned_hours <= 0 and otherwise
\* clamp(completed_hours, 0, planned_hours) / planned_hours, whatever the quantity; it
\* lies in [0,1] also for completed hours below 0 or above the planned hours.
C18_CompletionRatio ==
    Returned("_phase_completion_ratio") =>
        /\ call.ret = CompletionOf(call.arg.phase)
        /\ InUnitInterval(call.ret)

\* five units of a phase with 6 of 4 planned hours completed: the ratio is 1
C18_Witness ==
    /\ Returned("_phase_completion_ratio")
    /\ call.arg.quantity = 5
    /\ call.arg.phase.planned_hours = R(4)
    /\ call.arg.phase.completed_hours = R(6)
    /\ call.ret = One

\* sum of effective_hours x completion_ratio over sum of effective_hours
WeightedProgress(product, roster) ==
    LET phases == product.phases
        hours == [i \in DOMAIN phases |-> EffectiveHours(phases[i], roster)]
        done == [i \in DOMAIN phases |-> RMul(hours[i], CompletionOf(phases[i]))]
        total == RSumOver(hours, DOMAIN phases)
    IN  IF RLe(total, Zero) THEN Zero ELSE RDiv(RSumOver(done, DOMAIN phases), total)

\* C19: _product_progress is the hour-weighted completion of the product's phases, 0 when
\* the effective hours sum to 0 or less, always in [0,1], and the same whatever parallel
\* group any one phase is moved to.
C19_ProductProgress ==
    Returned("_product_progress") =>
        LET product == call.arg.product
            equipment_map == _equipment_available_map_from_list(call.arg.equipment)
        IN  /\ call.ret = WeightedProgress(product, call.arg.equipment)
            /\ InUnitInterval(call.ret)
            /\ \A j \in DOMAIN product.phases, g \in 0..2 :
                   _product_progress([product EXCEPT !.phases[j].parallel_group = g],
                                     equipment_map) = call.ret

\* a quarter of 4h and all of 12h / 2 machines, one of them in a group: (1 + 6) / 10
C19_Witness ==
    /\ Returned("_product_progress")
    /\ call.arg.product.phases
           = <<Phase(4, 1, 0, <<>>), Phase(12, 20, 1, <<"A", ",", "B">>)>>
    /\ Pooled(call.arg.equipment, {IdA, IdB}) = 2
    /\ call.ret = <<7, 10>>

-----------------------------------------------------------------------------
(* The capacity trace a result carries.                                     *)

\* the days the loop went through before it returned
Visited(c) == StartDate(order[c])..current_day[c]

\* C20: in a result of compute_eta a visited day is a key of daily_capacity_map exactly
\* when it has base capacity, a loss or overtime; its value is
\* max(base - lost + extra, 0), which is never negative; nothing else is in the map, and
\* a result for a finished order carries an empty map.
C20_CapacityTrace ==
    \A c \in Calls :
        pc[c] = "returned" =>
            LET o == order[c]
                trace == result[c].daily_capacity_map
            IN  IF Finished(c)
                    THEN /\ \A d \in Visited(c) :
                                d \in DOMAIN trace <=> Recorded(o, shift_template, d)
                         /\ \A d \in DOMAIN trace :
                                /\ d \in Visited(c)
                                /\ trace[d] = NetOn(o, shift_template, d)
                                /\ RLe(Zero, trace[d])
                    ELSE trace = EmptyMap

\* a result whose trace leaves out a visited day without capacity and holds a day that
\* has overtime but no base capacity
C20_Witness ==
    \E c \in Calls :
        /\ Finished(c)
        /\ \E d \in Visited(c) : d \notin DOMAIN result[c].daily_capacity_map
        /\ \E d \in DOMAIN result[c].daily_capacity_map :
               /\ BaseOn(shift_template, d) = Zero
               /\ RLt(Zero, result[c].daily_capacity_map[d])

-----------------------------------------------------------------------------
(* What the 3650 days from the start date supply.                           *)

HorizonLength == 3650

\* the net capacity of the 3650 days from the start date
HorizonTotal(o, t) == NetOver(o, t, StartDate(o), StartDate(o) + HorizonLength - 1)

\* C21: for an order with remaining_hours > 0, compute_eta ends with the
\* bounded-computation error exactly when the net capacity max(base - lost + extra, 0)
\* of the 3650 days from the start date sums to less than remaining_hours, also under a
\* calendar that has working days; otherwise it ends with a result.
C21_ExactFailure ==
    \A c \in Calls :
        (Done(c) /\ RLt(Zero, OrderRemaining(order[c]))) =>
            (pc[c] = "raised"
                <=> RLt(HorizonTotal(order[c], shift_template), OrderRemaining(order[c])))

\* 20865h under a calendar of 8h working days: one hour more than 3650 days supply
C21_Witness ==
    /\ pc[1] = "raised"
    /\ shift_template = Template8
    /\ OrderRemaining(order[1]) = R(20865)
    /\ HorizonTotal(order[1], shift_template) = R(20864)

-----------------------------------------------------------------------------
(* The ledger of two orders that hold the same events and adjustments in    *)
(* different arrangements.                                                  *)

\* ys holds the entries of xs in some order
IsReordering(xs, ys) ==
    /\ Len(xs) = Len(ys)
    /\ \E f \in [DOMAIN xs -> DOMAIN xs] :
           /\ \A i, j \in DOMAIN xs : f[i] = f[j] => i = j
           /\ ys = [i \in DOMAIN xs |-> xs[f[i]]]

\* xs without the entries at the indices in S
RECURSIVE Without(_, _)
Without(xs, S) ==
    IF xs = <<>> THEN <<>>
    ELSE LET rest == Without(SubSeq(xs, 1, Len(xs) - 1), S)
         IN  IF Len(xs) \in S THEN rest ELSE Append(rest, xs[Len(xs)])

\* ys holds one event in place of two events of xs on the same date, with their total
IsMerge(xs, ys) ==
    \E i, j \in DOMAIN xs, k \in DOMAIN ys :
        /\ i < j
        /\ xs[i].day = xs[j].day
        /\ ys[k].day = xs[i].day
        /\ ys[k].hours_lost = RAdd(xs[i].hours_lost, xs[j].hours_lost)
        /\ IsReordering(Without(xs, {i, j}), Without(ys, {k}))

\* the two orders differ in the arrangement of their events and adjustments only
SameLedgerEntries(o1, o2) ==
    /\ [o1 EXCEPT !.events = o2.events, !.adjustments = o2.adjustments] = o2
    /\ IsReordering(o1.events, o2.events) \/ IsMerge(o1.events, o2.events)
    /\ IsReordering(o1.adjustments, o2.adjustments)

\* the dates the ledger can be asked about: those of the lists and the days around them
LedgerDates(o) ==
    LET named == {o.events[i].day : i \in DOMAIN o.events} \cup OvertimeDays(o)
    IN  named \cup {d + 1 : d \in named} \cup {StartDate(o)}

\* C22: the lost hours of a date are the sum of hours_lost over the events of that date
\* and the extra hours the sum over its adjustments, 0 for a date without any; so two
\* orders that differ only in the order of their events and adjustments, or in two events
\* of one date being replaced by one with their total, end with the same finish instant,
\* remaining_hours and capacity trace, or both with the error.
C22_LedgerAggregation ==
    /\ \A c \in Calls :
           Started(c) =>
               \A d \in LedgerDates(order[c]) :
                   /\ Get(lost_map[c], d, Zero) = LostOn(order[c], d)
                   /\ Get(extra_map[c], d, Zero) = ExtraOn(order[c], d)
    /\ (Done(1) /\ Done(2) /\ SameLedgerEntries(order[1], order[2])) =>
           /\ pc[1] = pc[2]
           /\ pc[1] = "returned" =>
                  /\ result[1].eta_dt = result[2].eta_dt
                  /\ result[1].remaining_hours = result[2].remaining_hours
                  /\ result[1].daily_capacity_map = result[2].daily_capacity_map

\* Monday's 4h and 2h were replaced by 6h, the adjustments stand in another order, and
\* both invocations returned
C22_Witness ==
    /\ Finished(1) /\ Finished(2)
    /\ Len(order[1].events) = 3 /\ Len(order[2].events) = 2
    /\ IsMerge(order[1].events, order[2].events)
    /\ order[1].adjustments # order[2].adjustments
    /\ SameLedgerEntries(order[1], order[2])
    /\ Get(lost_map[1], 0, Zero) = R(6)

-----------------------------------------------------------------------------
(* The finish instant against the start instant and against the work done.  *)

\* C25 as claimed: whenever compute_eta returns a result the finish instant is not
\* earlier than the order's start instant, whatever the time of day of the start.
C25_FinishNotBeforeStart ==
    \A c \in Calls :
        pc[c] = "returned" => RLe(order[c].start_dt, result[c].eta_dt)

\* o2 is o1 with more hours completed in some phases and nothing else changed
MoreCompleted(o1, o2) ==
    /\ Len(o1.products) = Len(o2.products)
    /\ \A i \in DOMAIN o1.products :
           Len(o1.products[i].phases) = Len(o2.products[i].phases)
    /\ \A i \in DOMAIN o1.products : \A j \in DOMAIN o1.products[i].phases :
           RLe(o1.products[i].phases[j].completed_hours,
               o2.products[i].phases[j].completed_hours)
    /\ \E i \in DOMAIN o1.products : \E j \in DOMAIN o1.products[i].phases :
           RLt(o1.products[i].phases[j].completed_hours,
               o2.products[i].phases[j].completed_hours)
    /\ o1 = [o2 EXCEPT !.products =
                 [i \in DOMAIN o2.products |->
                     [o2.products[i] EXCEPT !.phases =
                         [j \in DOMAIN o2.products[i].phases |->
                             [o2.products[i].phases[j] EXCEPT !.completed_hours =
                                 o1.products[i].phases[j].completed_hours]]]]]

\* C26 as claimed: of two orders that differ only in more hours being completed in the
\* second, the second has no more remaining_hours, and when compute_eta succeeds on the
\* first it succeeds on the second with a finish instant that is not later.
C26_WorkloadMonotonicity ==
    MoreCompleted(order[1], order[2]) =>
        /\ (Started(1) /\ Started(2)) => RLe(remaining_hours[2], remaining_hours[1])
        /\ (pc[1] = "returned" /\ Done(2)) =>
               /\ pc[2] = "returned"
               /\ RLe(result[2].eta_dt, result[1].eta_dt)

-----------------------------------------------------------------------------
(* The hours left while the loop runs.                                      *)

\* the net capacity of the days the loop of invocation c has gone through
Consumed(c) ==
    NetOver(order[c], shift_template, StartDate(order[c]), current_day[c] - 1)

\* C27: at the start of every iteration 0 < hours_left <= remaining_hours and hours_left
\* is remaining_hours less the net capacity of the days already gone through; an
\* iteration never raises hours_left and lowers it only on a day with net capacity > 0;
\* a result reports the whole workload of the order as remaining_hours, not what was left
\* on the finishing day.
C27_LoopInvariant ==
    /\ [](\A c \in Calls :
              /\ pc[c] = "loop" =>
                     /\ RLt(Zero, hours_left[c])
                     /\ RLe(hours_left[c], remaining_hours[c])
                     /\ remaining_hours[c] = OrderRemaining(order[c])
                     /\ hours_left[c] = RSub(remaining_hours[c], Consumed(c))
              /\ Finished(c) => result[c].remaining_hours = OrderRemaining(order[c]))
    /\ [][\A c \in Calls :
              pc[c] = "loop" =>
                  /\ RLe(hours_left'[c], hours_left[c])
                  /\ RLt(hours_left'[c], hours_left[c]) =>
                         RLt(Zero, NetOn(order[c], shift_template, current_day[c]))]_vars

\* a result after some days consumed part of the workload: what was left on the finishing
\* day is less than what the result reports
C27_Witness ==
    /\ Finished(1)
    /\ RLt(Zero, Consumed(1))
    /\ RLt(hours_left[1], result[1].remaining_hours)
    /\ hours_left[1] = RSub(OrderRemaining(order[1]), Consumed(1))

-----------------------------------------------------------------------------
(* The extent of the capacity trace.                                        *)

\* the entries of the list dated a..b
Dated(xs, a, b) ==
    LET Within(e) == a <= e.day /\ e.day <= b
    IN  SelectSeq(xs, Within)

\* o1 and o2 differ only in events and adjustments dated outside a..b
SameWithin(o1, o2, a, b) ==
    /\ [o1 EXCEPT !.events = o2.events, !.adjustments = o2.adjustments] = o2
    /\ Dated(o1.events, a, b) = Dated(o2.events, a, b)
    /\ Dated(o1.adjustments, a, b) = Dated(o2.adjustments, a, b)

\* the step is an iteration of invocation c: it returns or moves on to the next day
Visits(c) ==
    pc[c] = "loop" /\ (pc'[c] = "returned" \/ current_day'[c] # current_day[c])

\* the step of invocation c takes hours from the workload: it lowers hours_left or it
\* returns from the loop
Consumes(c) ==
    pc[c] = "loop" /\ (RLt(hours_left'[c], hours_left[c]) \/ pc'[c] = "returned")

\* C28: in a result with remaining_hours > 0 the keys of the capacity trace lie between
\* the start date and the finishing day, the finishing day is the latest key and has a
\* value > 0; a day on which workload is consumed is entered in the trace, and a visited
\* day with net capacity > 0 consumes workload; events and adjustments dated before the
\* start date or after the finishing day change neither the finish instant nor the trace.
C28_TraceExtent ==
    /\ [](\A c \in Calls :
              Finished(c) =>
                  LET trace == result[c].daily_capacity_map
                      first == StartDate(order[c])
                      last == current_day[c]
                  IN  /\ \A d \in DOMAIN trace : first <= d /\ d <= last
                      /\ last \in DOMAIN trace
                      /\ RLt(Zero, trace[last])
                      /\ \A other \in Calls :
                             (Done(other) /\ SameWithin(order[c], order[other], first, last)) =>
                                 /\ pc[other] = "returned"
                                 /\ result[other].eta_dt = result[c].eta_dt
                                 /\ result[other].daily_capacity_map = trace)
    /\ [][\A c \in Calls :
              /\ Consumes(c) => current_day[c] \in DOMAIN daily_capacity_map'[c]
              /\ (Visits(c) /\ RLt(Zero, NetOn(order[c], shift_template, current_day[c])))
                     => Consumes(c)]_vars

\* both invocations returned, the second for an order that has events on the Monday and
\* Tuesday before the start and overtime four weeks after the finish
C28_Witness ==
    /\ Finished(1) /\ Finished(2)
    /\ StartDate(order[1]) = 2
    /\ current_day[1] > 2
    /\ Len(order[2].events) = 4
    /\ Len(order[2].adjustments) = 3
    /\ SameWithin(order[1], order[2], StartDate(order[1]), current_day[1])

-----------------------------------------------------------------------------
(* The two hour metrics of a product against each other.                    *)

TotalEffective(product, roster) ==
    RSumOver([j \in DOMAIN product.phases |-> EffectiveHours(product.phases[j], roster)],
             DOMAIN product.phases)

\* C29: for a product whose effective hours sum to more than 0, _product_progress is 1
\* exactly when _product_remaining_hours is 0, however the phases are spread over
\* parallel groups; and _product_remaining_hours lies between the largest remainder of a
\* single phase and the sum of the remainders of all phases.
C29_MetricConsistency ==
    Returned("_product_remaining_hours") =>
        LET product == call.arg.product
            roster == call.arg.equipment
            remainders == [j \in DOMAIN product.phases |->
                              RemainingOf(product.phases[j], roster)]
        IN  /\ RLt(Zero, TotalEffective(product, roster)) =>
                   (WeightedProgress(product, roster) = One <=> call.ret = Zero)
            /\ \A j \in DOMAIN product.phases : RLe(remainders[j], call.ret)
            /\ RLe(call.ret, RSumOver(remainders, DOMAIN product.phases))
            /\ product.phases = <<>> => call.ret = Zero

\* two phases in one group and one outside it, all done: nothing remains
C29_Witness ==
    /\ Returned("_product_remaining_hours")
    /\ Len(call.arg.product.phases) = 3
    /\ call.arg.product.phases[1].parallel_group = 1
    /\ call.arg.product.phases[2].parallel_group = 1
    /\ call.arg.product.phases[3].parallel_group = 0
    /\ RLt(Zero, TotalEffective(call.arg.product, call.arg.equipment))
    /\ call.ret = Zero

\* a group of two unfinished phases: the remainder is the larger of the two, less than
\* their sum
C29_WitnessOpen ==
    /\ Returned("_product_remaining_hours")
    /\ Len(call.arg.product.phases) = 2
    /\ call.arg.product.phases[1].parallel_group = 1
    /\ call.arg.product.phases[2].parallel_group = 1
    /\ RLt(Zero, call.ret)
    /\ RLt(call.ret, RAdd(RemainingOf(call.arg.product.phases[1], call.arg.equipment),
                          RemainingOf(call.arg.product.phases[2], call.arg.equipment)))

-----------------------------------------------------------------------------
(* modules/data_io.py: an order as a dictionary and back.  A dictionary is   *)
(* a function on its keys, a JSON number a rational, an ISO text of a date  *)
(* its year, month and day.  Only the fields the engine reads are carried.  *)

\* int(x) of a number: the fraction is cut off towards 0
IntOf(x) == IF x[1] >= 0 THEN x[1] \div x[2] ELSE -((-x[1]) \div x[2])

\* day 0 of the model is Monday 2024-01-01
Epoch == <<2024, 1, 1>>
FirstYear == Epoch[1]
LastYear == FirstYear + 16

IsLeap(y) == (y % 4 = 0 /\ y % 100 # 0) \/ y % 400 = 0
DaysInYear(y) == IF IsLeap(y) THEN 366 ELSE 365
DaysInMonth(y, m) ==
    IF m = 2 THEN (IF IsLeap(y) THEN 29 ELSE 28) ELSE IF m \in {4, 6, 9, 11} THEN 30 ELSE 31

RECURSIVE DaysBeforeYear(_)
DaysBeforeYear(y) == IF y <= FirstYear THEN 0 ELSE DaysBeforeYear(y - 1) + DaysInYear(y - 1)

RECURSIVE DaysBeforeMonth(_, _)
DaysBeforeMonth(y, m) == IF m <= 1 THEN 0 ELSE DaysBeforeMonth(y, m - 1) + DaysInMonth(y, m - 1)

\* date.isoformat(): the text YYYY-MM-DD of a day
date_isoformat(day) ==
    LET y == CHOOSE x \in FirstYear..LastYear :
                 DaysBeforeYear(x) <= day /\ day < DaysBeforeYear(x + 1)
        rest == day - DaysBeforeYear(y)
        m == CHOOSE x \in 1..12 :
                 DaysBeforeMonth(y, x) <= rest /\ rest < DaysBeforeMonth(y, x + 1)
    IN  <<y, m, rest - DaysBeforeMonth(y, m) + 1>>

\* a reader that counts 30 days for every month
date_fromisoformat_even_months(text) ==
    DaysBeforeYear(text[1]) + 30 * (text[2] - 1) + text[3] - 1

\* date.fromisoformat(text)
date_fromisoformat(text) ==
    DaysBeforeYear(text[1]) + DaysBeforeMonth(text[1], text[2]) + text[3] - 1

\* datetime.isoformat(): the date, T, and HH:MM:SS of an instant of whole seconds
datetime_isoformat(dt) ==
    LET seconds == (dt[1] * 3600) \div dt[2]
    IN  [date |-> date_isoformat(seconds \div 86400), hour |-> (seconds % 86400) \div 3600,
         minute |-> (seconds % 3600) \div 60, second |-> seconds % 60]

\* datetime.fromisoformat(text)
datetime_fromisoformat(text) ==
    RAdd(R(24 * date_fromisoformat(text.date) + text.hour),
         Norm(60 * text.minute + text.second, 3600))

\* order_to_dict
order_to_dict(o, include_equipment) ==
    LET data ==
            [version |-> R(12),
             order_id |-> o.order_id,
             start_dt |-> datetime_isoformat(o.start_dt),
             products |->
                 [i \in DOMAIN o.products |->
                     LET p == o.products[i]
                     IN  [product_id |-> p.product_id,
                          quantity |-> R(p.quantity),
                          produced_qty |-> R(p.produced_qty),
                          phases |->
                              [j \in DOMAIN p.phases |->
                                  LET ph == p.phases[j]
                                  IN  [name |-> ph.name,
                                       planned_hours |-> ph.planned_hours,
                                       completed_hours |-> ph.completed_hours,
                                       parallel_group |-> R(ph.parallel_group),
                                       equipment_id |-> ph.equipment_id]]]],
             events |->
                 [i \in DOMAIN o.events |->
                     [day |-> date_isoformat(o.events[i].day),
                      hours_lost |-> o.events[i].hours_lost,
                      reason |-> o.events[i].reason]],
             capacity_adjustments |->
                 [i \in DOMAIN o.adjustments |->
                     [day |-> date_isoformat(o.adjustments[i].day),
                      extra_hours |-> o.adjustments[i].extra_hours,
                      reason |-> o.adjustments[i].reason,
                      equipment_ids |-> o.adjustments[i].equipment_ids]]]
    IN  IF include_equipment
            THEN Put(data, "equipment",
                     [i \in DOMAIN o.equipment |->
                         [equipment_id |-> o.equipment[i].equipment_id,
                          total_count |-> R(o.equipment[i].total_count),
                          available_count |-> R(o.equipment[i].available_count)]])
            ELSE data

\* a reader that takes every file for a file of per-unit hours
per_unit_hours_always(version) == TRUE

\* per_unit_hours = version < 11
per_unit_hours(version) == version < 11

\* if e.get("day")
HasDay(e) == "day" \in DOMAIN e

\* the phases of one product of the file, for the quantity read before them
phases_from_dict(list, quantity, version) ==
    [j \in DOMAIN list |->
        LET ph == list[j]
            planned == Get(ph, "planned_hours", Zero)
            planned_hours == IF per_unit_hours(version)
                                 THEN RMul(planned, R(IMax(quantity, 1)))
                                 ELSE planned
            completed == IF "completed_hours" \in DOMAIN ph THEN ph.completed_hours
                         ELSE IF Get(ph, "done", FALSE) THEN planned_hours ELSE Zero
        IN  [name |-> Get(ph, "name", ""),
             planned_hours |-> planned_hours,
             completed_hours |-> completed,
             parallel_group |-> IntOf(Get(ph, "parallel_group", Zero)),
             equipment_id |-> Get(ph, "equipment_id", <<>>)]]

\* order_from_dict
order_from_dict(data) ==
    LET version == IntOf(Get(data, "version", Zero))
        equipment ==
            LET list == Get(data, "equipment", <<>>)
            IN  [i \in DOMAIN list |->
                    [equipment_id |-> Get(list[i], "equipment_id", <<>>),
                     total_count |-> IntOf(Get(list[i], "total_count", One)),
                     available_count |-> IntOf(Get(list[i], "available_count", One))]]
        products ==
            IF "products" \in DOMAIN data
                THEN [i \in DOMAIN data.products |->
                         LET p == data.products[i]
                             quantity == IMax(IntOf(Get(p, "quantity", One)), 0)
                             produced == IMax(IntOf(Get(p, "produced_qty", Zero)), 0)
                         IN  [product_id |-> Get(p, "product_id", "Product"),
                              quantity |-> quantity,
                              produced_qty |-> IF produced > quantity THEN quantity
                                               ELSE produced,
                              phases |-> phases_from_dict(Get(p, "phases", <<>>), quantity,
                                                          version)]]
            ELSE IF "phases" \in DOMAIN data
                THEN LET quantity == IMax(IntOf(Get(data, "quantity", One)), 0)
                     IN  <<[product_id |-> "chanpin 1",
                            quantity |-> quantity,
                            produced_qty |-> 0,
                            phases |-> phases_from_dict(data.phases, quantity, version)]>>
            ELSE <<>>
        events ==
            LET list == SelectSeq(Get(data, "events", <<>>), HasDay)
            IN  [i \in DOMAIN list |->
                    [day |-> date_fromisoformat(list[i].day),
                     hours_lost |-> Get(list[i], "hours_lost", Zero),
                     reason |-> Get(list[i], "reason", "")]]
        adjustments ==
            LET list == SelectSeq(Get(data, "capacity_adjustments", <<>>), HasDay)
            IN  [i \in DOMAIN list |->
                    [day |-> date_fromisoformat(list[i].day),
                     extra_hours |-> Get(list[i], "extra_hours", Zero),
                     reason |-> Get(list[i], "reason", ""),
                     equipment_ids |-> Get(list[i], "equipment_ids", <<>>)]]
    IN  [order_id |-> Get(data, "order_id", "O-UNKNOWN"),
         start_dt |-> datetime_fromisoformat(data.start_dt),
         products |-> products,
         equipment |-> equipment,
         events |-> events,
         adjustments |-> adjustments]

-----------------------------------------------------------------------------
(* A stored order loaded, saved, loaded again ...                           *)

MaxLoads == 3

\* the "version" of a file: absent, from before the change of meaning, and from after it
StoredVersions == {R(0), R(8), R(10), R(11), R(12)}
\* the "quantity" of a product of a file
StoredQuantities == {R(-2), R(0), R(1), R(3)}
\* the "phases" of a product of a file: with completed hours, with the older `done` mark
StoredPhases ==
    { <<[name |-> "cut", planned_hours |-> R(2), completed_hours |-> R(1)]>>,
      <<[name |-> "cut", planned_hours |-> <<5, 2>>, done |-> TRUE],
        [name |-> "weld", planned_hours |-> R(4), parallel_group |-> R(1),
         equipment_id |-> IdA, done |-> FALSE]>> }

\* a dictionary with the entry added when there is a value for it
WithKey(data, key, values, choice) ==
    IF choice \in values THEN Put(data, key, choice) ELSE data

\* files of the format with products and of the older format of one product
StoredFiles ==
    LET absent == <<>>
    IN  UNION { { WithKey([start_dt |-> datetime_isoformat(R(8)),
                           products |-> <<WithKey([product_id |-> "P1", phases |-> phases],
                                                  "quantity", StoredQuantities, quantity)>>],
                          "version", StoredVersions, version),
                  WithKey(WithKey([start_dt |-> datetime_isoformat(R(8)), phases |-> phases],
                                  "quantity", StoredQuantities, quantity),
                          "version", StoredVersions, version) } :
                <<version, quantity, phases>> \in
                    (StoredVersions \cup {absent}) \X (StoredQuantities \cup {absent})
                        \X StoredPhases }

InitStorage ==
    \E file \in StoredFiles :
        InitLibrary(Called("order_from_dict", [data |-> file, first |-> file, loads |-> 0]))

\* main.py load_factory: self.orders = [self._order_from_dict(o) for o in data["orders"]]
Eval_order_from_dict ==
    /\ \/ Entered("order_from_dict")
       \/ Returned("order_to_dict")
    /\ LET data == IF Entered("order_from_dict") THEN call.arg.data ELSE call.ret
       IN  call' = [fn |-> "order_from_dict", pc |-> "returned",
                    arg |-> [data |-> data, first |-> call.arg.first,
                             loads |-> call.arg.loads + 1],
                    ret |-> order_from_dict(data)]
    /\ UNCHANGED engine

\* main.py _factory_to_dict: self._order_to_dict(order, include_equipment=False), and
\* duplicate_order: self._order_to_dict(self.order)
Eval_order_to_dict ==
    /\ Returned("order_from_dict")
    /\ call.arg.loads < MaxLoads
    /\ \E include_equipment \in BOOLEAN :
           call' = [fn |-> "order_to_dict", pc |-> "returned",
                    arg |-> [order |-> call.ret, first |-> call.arg.first,
                             loads |-> call.arg.loads,
                             include_equipment |-> include_equipment],
                    ret |-> order_to_dict(call.ret, include_equipment)]
    /\ UNCHANGED engine

NextStorage ==
    \/ Eval_order_from_dict
    \/ Eval_order_to_dict

SpecStorage == InitStorage /\ [][NextStorage]_vars

\* the products of a file of either format
FileProducts(file) ==
    IF "products" \in DOMAIN file THEN file.products
    ELSE <<[k \in DOMAIN file \cap {"quantity", "phases"} |-> file[k]]>>

\* the file is from before version 11
IsLegacyFile(file) == "version" \notin DOMAIN file \/ RLt(file.version, R(11))

\* the hours the file holds for phase j of product i, times max(quantity, 1) for a file
\* from before version 11
MigratedHours(file, i, j) ==
    LET p == FileProducts(file)[i]
        units == IF "quantity" \in DOMAIN p THEN RMax(p.quantity, One) ELSE One
    IN  IF IsLegacyFile(file) THEN RMul(p.phases[j].planned_hours, units)
        ELSE p.phases[j].planned_hours

\* C23: whatever the number of loads and saves since the first file, every loaded order
\* and every saved dictionary holds, for each phase, the planned hours of the first file
\* multiplied by max(quantity, 1) exactly when that file is from before version 11 (a file
\* without version counts as version 0), and unchanged otherwise; every saved dictionary
\* has version 12.
C23_MigrationOnce ==
    (Returned("order_from_dict") \/ Returned("order_to_dict")) =>
        LET first == call.arg.first
        IN  /\ Returned("order_to_dict") => call.ret.version = R(12)
            /\ Len(call.ret.products) = Len(FileProducts(first))
            /\ \A i \in DOMAIN call.ret.products :
                   /\ Len(call.ret.products[i].phases) = Len(FileProducts(first)[i].phases)
                   /\ \A j \in DOMAIN call.ret.products[i].phases :
                          call.ret.products[i].phases[j].planned_hours
                              = MigratedHours(first, i, j)

\* the third load after a version 8 file of 3 units at 2 hours each: 6 hours
C23_Witness ==
    /\ Returned("order_from_dict")
    /\ call.arg.loads = 3
    /\ "version" \in DOMAIN call.arg.first
    /\ call.arg.first.version = R(8)
    /\ "products" \in DOMAIN call.arg.first
    /\ "quantity" \in DOMAIN call.arg.first.products[1]
    /\ call.arg.first.products[1].quantity = R(3)
    /\ call.arg.first.products[1].phases[1].planned_hours = R(2)
    /\ call.ret.products[1].phases[1].planned_hours = R(6)

-----------------------------------------------------------------------------
(* An order and its copy through order_to_dict and order_from_dict, both    *)
(* scheduled.                                                               *)

\* Wednesday 2024-02-28, Thursday 2024-02-29, Friday 2024-03-01 and Wednesday 2025-01-01
LeapDay == 31 + 28
LeapEve == LeapDay - 1
MarchFirst == LeapDay + 1
NextNewYear == DaysInYear(FirstYear)

InitRoundTrip ==
    \/ \E start \in {R(8), <<31, 2>>, R(24 * LeapEve + 8)},
          products \in { <<Product("P1", 1, 0, <<Phase(20, 0, 0, <<>>)>>)>>,
                         <<Product("P1", 3, 2, <<Phase(40, 5, 1, IdA),
                                                 Phase(30, 30, 1, <<"A", ",", "B">>)>>),
                           Product("P2", 0, 0, <<Phase(5, 1, 0, IdB)>>)>>,
                         <<Product("P1", 2, 2, <<Phase(30, 30, 0, IdC)>>)>> },
          events \in { <<>>, <<Event(0, 8), Event(1, 3)>>,
                       <<Event(LeapDay, 4), Event(MarchFirst, 8), Event(NextNewYear, 2),
                         Event(LeapDay, 1)>> },
          adjustments \in { <<>>, <<Adjustment(LeapDay, 2, <<IdA, IdB>>),
                                    Adjustment(5, 3, <<>>)>> },
          template \in WorkingTemplates :
           InitState([c \in Calls |-> IF c = 1 THEN Order(start, products, events, adjustments)
                                      ELSE Order(Zero, <<>>, <<>>, <<>>)],
                     template, [c \in Calls |-> IF c = 1 THEN "start" ELSE "idle"], NoCall)
    \/ InitState([c \in Calls |-> IF c = 1 THEN Infeasible ELSE Order(Zero, <<>>, <<>>, <<>>)],
                 TemplateZero, [c \in Calls |-> IF c = 1 THEN "start" ELSE "idle"], NoCall)

\* main.py duplicate_order, once the order on display has its ETA:
\* new_order = self._order_from_dict(self._order_to_dict(self.order))
duplicate_order ==
    /\ Done(1)
    /\ pc[2] = "idle"
    /\ order' = [order EXCEPT ![2] = order_from_dict(order_to_dict(order[1], TRUE))]
    /\ pc' = [pc EXCEPT ![2] = "start"]
    /\ UNCHANGED <<shift_template, edit, call, ledger, explanation, current_day, hours_left,
                   daily_capacity_map, iter, result>>

NextRoundTrip ==
    \/ \E c \in Calls : Begin(c)
    \/ \E c \in Calls : DayStep(c)
    \/ \E c \in Calls : Raise(c)
    \/ duplicate_order

SpecRoundTrip == InitRoundTrip /\ [][NextRoundTrip]_vars

\* C30: the copy of an order through order_to_dict (equipment included) and
\* order_from_dict has the same start instant, products, phases, equipment, events and
\* adjustments as the order, and compute_eta ends on it as on the order: the same finish
\* instant, remaining_hours and capacity trace, or the same failure.
C30_RoundTrip ==
    /\ pc[2] # "idle" =>
           /\ order[2].start_dt = order[1].start_dt
           /\ order[2].products = order[1].products
           /\ order[2].equipment = order[1].equipment
           /\ order[2].events = order[1].events
           /\ order[2].adjustments = order[1].adjustments
    /\ Done(2) =>
           /\ pc[2] = pc[1]
           /\ pc[2] = "returned" =>
                  /\ result[2].eta_dt = result[1].eta_dt
                  /\ result[2].remaining_hours = result[1].remaining_hours
                  /\ result[2].daily_capacity_map = result[1].daily_capacity_map

\* an order started at 15:30 with a loss and overtime on the leap day and a loss in the
\* next year: the copy finishes when the order does
C30_Witness ==
    /\ pc[2] = "returned"
    /\ order[1].start_dt = <<31, 2>>
    /\ Len(order[1].events) = 4
    /\ order[1].events[1].day = LeapDay
    /\ order[1].events[3].day = NextNewYear
    /\ Len(order[1].adjustments) = 2
    /\ Len(order[1].products) = 2
    /\ RLt(Zero, result[2].remaining_hours)
    /\ result[2].eta_dt = result[1].eta_dt
    /\ DOMAIN result[2].daily_capacity_map # {}

-----------------------------------------------------------------------------
(* MVP.py: the engine of the revisions whose planned_hours are hours per    *)
(* unit, run on an order of that time; the order is then saved by           *)
(* MVP.py, loaded by data_io.py and run by the engine of today.             *)

\* MVP.py _phase_effective_hours with the quantity left out
MVP__phase_effective_hours_per_unit(phase, quantity, equipment_map) ==
    LET available == Get(equipment_map, phase.equipment_id, 1)
    IN  IF phase.equipment_id # <<>> /\ available > 0
            THEN RDiv(phase.planned_hours, R(available))
            ELSE phase.planned_hours

\* MVP.py _phase_effective_hours
MVP__phase_effective_hours(phase, quantity, equipment_map) ==
    LET qty == IMax(quantity, 1)
        base == RMul(phase.planned_hours, R(qty))
        available == Get(equipment_map, phase.equipment_id, 1)
    IN  IF phase.equipment_id # <<>> /\ available > 0 THEN RDiv(base, R(available)) ELSE base

\* MVP.py _phase_total_hours
MVP__phase_total_hours(phase, quantity) ==
    RMul(RMax(Zero, phase.planned_hours), R(IMax(quantity, 1)))

\* MVP.py _phase_completion_ratio
MVP__phase_completion_ratio(phase, quantity) ==
    LET total == MVP__phase_total_hours(phase, quantity)
        completed == RMin(RMax(Zero, phase.completed_hours), total)
    IN  IF RLe(total, Zero) THEN Zero ELSE RDiv(completed, total)

\* MVP.py _product_remaining_hours: the loop over product.phases[i..]
RECURSIVE MVP_RemainingLoop(_, _, _, _, _)
MVP_RemainingLoop(product, i, equipment_map, total, parallel_groups) ==
    IF i > Len(product.phases) THEN AddGroupMaxima(parallel_groups, DOMAIN parallel_groups, total)
    ELSE LET phase == product.phases[i]
             hours == MVP__phase_effective_hours(phase, product.quantity, equipment_map)
             ratio == MVP__phase_completion_ratio(phase, product.quantity)
             remaining == RMul(hours, RSub(One, ratio))
         IN  IF phase.parallel_group > 0
                 THEN MVP_RemainingLoop(product, i + 1, equipment_map, total,
                          Put(parallel_groups, phase.parallel_group,
                              Append(Get(parallel_groups, phase.parallel_group, <<>>), remaining)))
                 ELSE MVP_RemainingLoop(product, i + 1, equipment_map, RAdd(total, remaining),
                                        parallel_groups)

\* MVP.py: sum(_product_remaining_hours(p, equipment_map) for p in order.products)
RECURSIVE MVP_SumRemaining(_, _, _)
MVP_SumRemaining(products, i, equipment_map) ==
    IF i > Len(products) THEN Zero
    ELSE RAdd(MVP_RemainingLoop(products[i], 1, equipment_map, Zero, EmptyMap),
              MVP_SumRemaining(products, i + 1, equipment_map))

\* MVP.py compute_eta up to the loop, lines 186-216
MVP_Begin(c) ==
    /\ pc[c] = "mvp_start"
    /\ LET o == order[c]
           equipment_map == _equipment_available_map(o)
           rem == MVP_SumRemaining(o.products, 1, equipment_map)
       IN  /\ lost_map' = [lost_map EXCEPT ![c] = LostMapFrom(o.events, 1, EmptyMap)]
           /\ reason_map' = [reason_map EXCEPT ![c] = ReasonMapFrom(o.events, 1, EmptyMap)]
           /\ remaining_hours' = [remaining_hours EXCEPT ![c] = rem]
           /\ IF RLe(rem, Zero)
                 THEN /\ result' = [result EXCEPT ![c] =
                             [eta_dt |-> o.start_dt,
                              remaining_hours |-> Zero,
                              daily_capacity_map |-> EmptyMap,
                              explanation |->
                                  <<[line |-> "All phases completed. ETA equals start time."]>>]]
                      /\ pc' = [pc EXCEPT ![c] = "returned"]
                      /\ UNCHANGED <<current_day, hours_left, daily_capacity_map, iter>>
                 ELSE /\ current_day' = [current_day EXCEPT ![c] = DateOf(o.start_dt)]
                      /\ hours_left' = [hours_left EXCEPT ![c] = rem]
                      /\ daily_capacity_map' = [daily_capacity_map EXCEPT ![c] = EmptyMap]
                      /\ iter' = [iter EXCEPT ![c] = 0]
                      /\ pc' = [pc EXCEPT ![c] = "mvp_loop"]
                      /\ UNCHANGED result
    /\ UNCHANGED <<order, shift_template, edit, call, extra_map, extra_reason_map, explanation>>

\* MVP.py compute_eta: one iteration of `for _ in range(3650)`, lines 218-242
MVP_DayStep(c) ==
    /\ pc[c] = "mvp_loop"
    /\ iter[c] < MaxIterations
    /\ LET day == current_day[c]
           base_cap == capacity_for_day(shift_template, day)
           lost == Get(lost_map[c], day, Zero)
           cap == RMax(RSub(base_cap, lost), Zero)
           open == RLt(Zero, base_cap)
           map1 == IF open THEN Put(daily_capacity_map[c], day, cap) ELSE daily_capacity_map[c]
       IN  /\ daily_capacity_map' = [daily_capacity_map EXCEPT ![c] = map1]
           /\ IF open /\ RLt(Zero, cap) /\ RLe(hours_left[c], cap)
                 THEN /\ result' = [result EXCEPT ![c] =
                             [eta_dt |-> RAdd(R(day * 24 + 9), hours_left[c]),
                              remaining_hours |-> remaining_hours[c],
                              daily_capacity_map |-> map1,
                              explanation |-> <<[line |-> "No blocking events."]>>]]
                      /\ pc' = [pc EXCEPT ![c] = "returned"]
                      /\ UNCHANGED <<hours_left, current_day, iter>>
                 ELSE /\ hours_left' = [hours_left EXCEPT ![c] =
                             IF open /\ RLt(Zero, cap) THEN RSub(@, cap) ELSE @]
                      /\ current_day' = [current_day EXCEPT ![c] = @ + 1]
                      /\ iter' = [iter EXCEPT ![c] = @ + 1]
                      /\ UNCHANGED <<result, pc>>
    /\ UNCHANGED <<order, shift_template, edit, call, ledger, explanation>>

\* MVP.py compute_eta, line 244: raise RuntimeError("ETA computation exceeded safe bounds.")
MVP_Raise(c) ==
    /\ pc[c] = "mvp_loop"
    /\ iter[c] = MaxIterations
    /\ pc' = [pc EXCEPT ![c] = "raised"]
    /\ UNCHANGED <<order, shift_template, edit, call, ledger, explanation, current_day,
                   hours_left, daily_capacity_map, iter, result>>

\* MVP.py _order_to_dict
MVP__order_to_dict(o) ==
    [version |-> R(8),
     order_id |-> o.order_id,
     start_dt |-> datetime_isoformat(o.start_dt),
     equipment |->
         [i \in DOMAIN o.equipment |->
             [equipment_id |-> o.equipment[i].equipment_id,
              total_count |-> R(o.equipment[i].total_count),
              available_count |-> R(o.equipment[i].available_count)]],
     products |->
         [i \in DOMAIN o.products |->
             LET p == o.products[i]
             IN  [product_id |-> p.product_id,
                  quantity |-> R(p.quantity),
                  phases |->
                      [j \in DOMAIN p.phases |->
                          LET ph == p.phases[j]
                          IN  [name |-> ph.name,
                               planned_hours |-> ph.planned_hours,
                               completed_hours |-> ph.completed_hours,
                               parallel_group |-> R(ph.parallel_group),
                               equipment_id |-> ph.equipment_id]]]],
     events |->
         [i \in DOMAIN o.events |->
             [day |-> date_isoformat(o.events[i].day),
              hours_lost |-> o.events[i].hours_lost,
              reason |-> o.events[i].reason]]]

\* the file MVP.py saved, loaded by main.py load_factory into the order of call 1
load_factory ==
    /\ Done(2)
    /\ pc[1] = "idle"
    /\ order' = [order EXCEPT ![1] = order_from_dict(MVP__order_to_dict(order[2]))]
    /\ pc' = [pc EXCEPT ![1] = "start"]
    /\ UNCHANGED <<shift_template, edit, call, ledger, explanation, current_day, hours_left,
                   daily_capacity_map, iter, result>>

\* an order of MVP.py: no produced_qty and no adjustments are kept there
MVP_Order(start, equipment, products, events) ==
    [order_id |-> "O-1", start_dt |-> start, products |-> products, equipment |-> equipment,
     events |-> events, adjustments |-> <<>>]

\* phases with hours per unit: without equipment, on A, on Z which no list has, in one
\* parallel group, over-completed; one phase on "A,B", a single id to MVP.py; and one on
\* a machine named "-", which today's engine reads as no machine
MVP_Phases ==
    { <<Phase(20, 0, 0, <<>>)>>,
      <<Phase(8, 3, 0, IdA), Phase(4, 0, 0, IdZ)>>,
      <<Phase(5, 0, 1, IdA), Phase(6, 20, 1, IdB), Phase(2, 1, 0, <<>>)>>,
      <<Phase(0, 0, 0, IdA), Phase(3, 9, 0, IdB)>>,
      <<Phase(8, 0, 0, <<"A", ",", "B">>)>>,
      <<Phase(8, 0, 0, <<"-">>)>> }

InitMVP ==
    \/ \E start \in {R(8), <<31, 2>>},
          equipment \in { <<Equipment(IdA, 2, 2), Equipment(IdB, 3, 0)>>,
                          <<Equipment(IdA, 1, 1), Equipment(IdB, 2, 3),
                            Equipment(<<"A", ",", "B">>, 2, 2), Equipment(<<"-">>, 2, 2)>> },
          quantity \in {0, 1, 3},
          phases \in MVP_Phases,
          events \in { <<>>, <<Event(0, 8), Event(1, 3), Event(5, 2)>> },
          template \in WorkingTemplates :
           InitState([c \in Calls |->
                         IF c = 2
                             THEN MVP_Order(start, equipment,
                                            <<[product_id |-> "P1", quantity |-> quantity,
                                               phases |-> phases]>>, events)
                             ELSE Order(Zero, <<>>, <<>>, <<>>)],
                     template, [c \in Calls |-> IF c = 2 THEN "mvp_start" ELSE "idle"], NoCall)
    \/ InitState([c \in Calls |->
                     IF c = 2
                         THEN MVP_Order(R(8), <<>>, <<[product_id |-> "P1", quantity |-> 2,
                                                      phases |-> <<Phase(20, 0, 0, <<>>)>>]>>,
                                        <<Event(1, 8)>>)
                         ELSE Order(Zero, <<>>, <<>>, <<>>)],
                 TemplateZero, [c \in Calls |-> IF c = 2 THEN "mvp_start" ELSE "idle"], NoCall)

NextMVP ==
    \/ \E c \in Calls : MVP_Begin(c)
    \/ \E c \in Calls : MVP_DayStep(c)
    \/ \E c \in Calls : MVP_Raise(c)
    \/ load_factory
    \/ \E c \in Calls : Begin(c)
    \/ \E c \in Calls : DayStep(c)
    \/ \E c \in Calls : Raise(c)

SpecMVP == InitMVP /\ [][NextMVP]_vars

\* the equipment text is empty or one id that _split_equipment_ids reads as it is written
NamesAtMostOne(phase) ==
    \/ phase.equipment_id = <<>>
    \/ _split_equipment_ids(phase.equipment_id) = <<phase.equipment_id>>

\* hours per unit >= 0 and at most one equipment id, read as written, in every phase
InLegacyScope(o) ==
    \A i \in DOMAIN o.products : \A j \in DOMAIN o.products[i].phases :
        /\ RLe(Zero, o.products[i].phases[j].planned_hours)
        /\ NamesAtMostOne(o.products[i].phases[j])

\* hours per unit >= 0 and no phase whose equipment text holds more than one id
AtMostOneIdEach(o) ==
    \A i \in DOMAIN o.products : \A j \in DOMAIN o.products[i].phases :
        /\ RLe(Zero, o.products[i].phases[j].planned_hours)
        /\ Len(_split_equipment_ids(o.products[i].phases[j].equipment_id)) <= 1

====
